---- MODULE Spec2Model ----
(***************************************************************************)
(* A model of symphony-lite's workflow coordination engine:                *)
(*   - core/router.py      build_agent_plan, required_agents               *)
(*   - core/intent.py      classify_intent                                 *)
(*   - gates/engine.py     GateRegistry predicates, evaluate,              *)
(*                         get_fix_instructions                            *)
(*   - core/vision_result.py  parse_vision_payload, to_observations        *)
(*   - core/runtime.py     ServerManager.start_all, stop_all,              *)
(*                         resolve_preview_surface, _wait_for_port         *)
(*   - orchestrator.py     _require_api_keys, run_workflow                 *)
(*                                                                         *)
(* Spec is run_workflow; it holds the ServerManager as a count of tracked  *)
(* processes.  SpecServer, SpecPreview, SpecParse, SpecGates, SpecRouter,  *)
(* SpecIntent and SpecWait drive one component each on its own, with the   *)
(* run at rest.                                                            *)
(*                                                                         *)
(* Scores are integers in thousandths (0.90 is 900).  Python's None for an *)
(* optional number is NoneVal.  A Python dict with optional keys is a TLA+ *)
(* function whose DOMAIN holds the keys that are present.                  *)
(***************************************************************************)
EXTENDS Integers, Sequences, FiniteSets, TLC

\* ------------------------------------------------------------------ bounds
MaxPasses == 3

\* --------------------------------------------------------------- constants
NoneVal == -1
DefaultAlignment == 900
DefaultSpacing == 900
DefaultContrast == 750

\* dict.get(key, default)
Get(d, k, default) == IF k \in DOMAIN d THEN d[k] ELSE default

\* f"{x:.2f}" of a score held in thousandths: the value in hundredths.
\* (The samples used below have no last digit 5, so no rounding tie arises.)
Fmt2(x) == (x + 5) \div 10

\* ------------------------------------------------------------ core/router.py
\* Variant: a create plan is validated only when the flag asks for it.
build_agent_plan_FlagOnly(intent, topic, include_ui_validation) ==
    IF intent = "refine" /\ topic = "ui_ux"
    THEN <<"vision", "brain", "vision">>
    ELSE IF intent \in {"create", "refine"} /\ include_ui_validation
    THEN <<"brain", "vision">>
    ELSE <<"brain">>

\* Variant: every plan starts with the brain.
build_agent_plan_BrainFirst(intent, topic, include_ui_validation) ==
    IF intent \in {"create", "refine"}
       /\ (include_ui_validation \/ topic = "ui_ux")
    THEN <<"brain", "vision">>
    ELSE <<"brain">>

build_agent_plan(intent, topic, include_ui_validation) ==
    IF intent = "create"
    THEN <<"brain">> \o (IF include_ui_validation \/ topic = "ui_ux"
                         THEN <<"vision">> ELSE <<>>)
    ELSE IF intent = "refine"
    THEN IF topic = "ui_ux"
         THEN <<"vision", "brain", "vision">>
         ELSE <<"brain">> \o (IF include_ui_validation
                              THEN <<"vision">> ELSE <<>>)
    ELSE <<"brain">>

RECURSIVE required_agents_from(_, _)
required_agents_from(plan, seen) ==
    IF plan = <<>> THEN seen
    ELSE IF \E i \in 1..Len(seen) : seen[i] = Head(plan)
         THEN required_agents_from(Tail(plan), seen)
         ELSE required_agents_from(Tail(plan), Append(seen, Head(plan)))

required_agents(plan) == required_agents_from(plan, <<>>)

\* ---------------------------------------------------------- orchestrator.py
\* _require_api_keys: the set named in the raised error (sorted(set(missing)));
\* empty means nothing is raised.  env is the set of variables that are set.
KeyOf(agent) ==
    IF agent = "brain" THEN "SYMPHONY_BRAIN_API_KEY"
    ELSE IF agent = "vision" THEN "SYMPHONY_VISION_API_KEY"
    ELSE "None"

\* Variant: the check stops at the first agent whose variable is missing.
MissingKeys_FirstOnly(agent_names, env) ==
    LET unset == { j \in 1..Len(agent_names) :
                     KeyOf(agent_names[j]) # "None"
                     /\ KeyOf(agent_names[j]) \notin env }
    IN  IF unset = {} THEN {}
        ELSE { KeyOf(agent_names[CHOOSE j \in unset :
                                    \A k \in unset : j <= k]) }

MissingKeys(agent_names, env) ==
    { KeyOf(agent_names[i]) : i \in { j \in 1..Len(agent_names) :
          KeyOf(agent_names[j]) # "None" /\ KeyOf(agent_names[j]) \notin env } }

\* ------------------------------------------------------------ gates/engine.py
EmptyDict == [k \in {} |-> 0]

\* A failing reason.  The code formats a string; the model keeps its parts:
\* the gate name, the two numbers printed in it, and for form_submit_ok the
\* "; "-joined list of per-interaction failures.
Reason(gate, a, b, parts) == [gate |-> gate, a |-> a, b |-> b, parts |-> parts]
PassResult == [passed |-> TRUE, reason |-> <<>>]
FailResult(r) == [passed |-> FALSE, reason |-> <<r>>]

\* _get_capability_config, for capability values that are dicts
\* (the shape build_expectations produces).
_get_capability_config(expectations, key) ==
    Get(Get(expectations, "capabilities", EmptyDict), key, EmptyDict)

\* Variant: the observed count must exceed the minimum.
_capability_min_Strict(name, expectations, observations) ==
    LET required == Get(_get_capability_config(expectations, name), "min", 0)
        actual == Get(Get(observations, "elements", EmptyDict), name, 0)
    IN  IF required = 0 THEN PassResult
        ELSE IF actual > required THEN PassResult
        ELSE FailResult(Reason(name, required, actual, <<>>))

\* _kpi_min, _charts_min, _tables_min share one body, parameterised by name.
_capability_min(name, expectations, observations) ==
    LET required == Get(_get_capability_config(expectations, name), "min", 0)
        actual == Get(Get(observations, "elements", EmptyDict), name, 0)
    IN  IF required = 0 THEN PassResult
        ELSE IF actual >= required THEN PassResult
        ELSE FailResult(Reason(name, required, actual, <<>>))

_kpi_min(expectations, observations) ==
    _capability_min("kpi_tiles", expectations, observations)

_charts_min(expectations, observations) ==
    _capability_min("charts", expectations, observations)

_tables_min(expectations, observations) ==
    _capability_min("tables", expectations, observations)

_filters_required(expectations, observations) ==
    LET required == Get(_get_capability_config(expectations, "filters"),
                        "required", FALSE)
        actual == Get(Get(observations, "elements", EmptyDict), "filters", 0)
    IN  IF ~required THEN PassResult
        ELSE IF actual > 0 THEN PassResult
        ELSE FailResult(Reason("filters", 0, 0, <<>>))

Failure(id, what, status) == [id |-> id, what |-> what, status |-> status]

\* The failures one expected interaction contributes (loop body, 112-135).
InteractionFailures(interaction, interactions_actual) ==
    LET id == interaction.id
        actual == Get(interactions_actual, id, EmptyDict)
        status == Get(actual, "http_status", NoneVal)
    IN  IF interaction.type # "form_submit" THEN <<>>
        ELSE IF ~Get(actual, "attempted", FALSE)
        THEN <<Failure(id, "not attempted", NoneVal)>>
        ELSE IF Get(interaction, "expect_http_2xx", FALSE) /\ status = NoneVal
        THEN <<Failure(id, "http_status not captured", NoneVal)>>
        ELSE (IF Get(interaction, "expect_http_2xx", FALSE)
                 /\ ~(200 <= status /\ status < 300)
              THEN <<Failure(id, "http_status not 2xx", status)>> ELSE <<>>)
          \o (IF Get(interaction, "expect_success_banner", FALSE)
                 /\ ~Get(actual, "success_banner", FALSE)
              THEN <<Failure(id, "success_banner not shown", NoneVal)>>
              ELSE <<>>)
          \o (IF Get(actual, "error_banner", FALSE)
              THEN <<Failure(id, "error_banner shown", NoneVal)>> ELSE <<>>)

RECURSIVE AllInteractionFailures(_, _)
AllInteractionFailures(interactions_expected, interactions_actual) ==
    IF interactions_expected = <<>> THEN <<>>
    ELSE InteractionFailures(Head(interactions_expected), interactions_actual)
         \o AllInteractionFailures(Tail(interactions_expected),
                                   interactions_actual)

_form_submit_ok(expectations, observations) ==
    LET interactions_expected == Get(expectations, "interactions", <<>>)
        interactions_actual == Get(observations, "interactions", EmptyDict)
        failures == AllInteractionFailures(interactions_expected,
                                           interactions_actual)
    IN  IF interactions_expected = <<>> THEN PassResult
        ELSE IF failures # <<>>
        THEN FailResult(Reason("form_submit_ok", 0, 0, failures))
        ELSE PassResult

\* Variant: the score must exceed the threshold.
_score_gate_Strict(gate, metric, default, expectations, observations) ==
    LET threshold == Get(Get(expectations, "thresholds", EmptyDict),
                         gate, default)
        actual == Get(Get(observations, "vision_scores", EmptyDict),
                      metric, 0)
    IN  IF actual > threshold THEN PassResult
        ELSE FailResult(Reason(gate, Fmt2(actual), Fmt2(threshold), <<>>))

\* _alignment_score, _spacing_score, _contrast_score share one body.
_score_gate(gate, metric, default, expectations, observations) ==
    LET threshold == Get(Get(expectations, "thresholds", EmptyDict),
                         gate, default)
        actual == Get(Get(observations, "vision_scores", EmptyDict),
                      metric, 0)
    IN  IF actual >= threshold THEN PassResult
        ELSE FailResult(Reason(gate, Fmt2(actual), Fmt2(threshold), <<>>))

_alignment_score(expectations, observations) ==
    _score_gate("alignment_score", "alignment", DefaultAlignment,
                expectations, observations)

_spacing_score(expectations, observations) ==
    _score_gate("spacing_score", "spacing", DefaultSpacing,
                expectations, observations)

_contrast_score(expectations, observations) ==
    _score_gate("contrast_score", "contrast", DefaultContrast,
                expectations, observations)

DefaultThresholds ==
    [alignment_score |-> DefaultAlignment,
     spacing_score |-> DefaultSpacing,
     contrast_score |-> DefaultContrast]

\* evaluate() writes into the dict it is given (lines 190-195): the value of
\* `expectations` after the call.
evaluate_expectations(expectations) ==
    IF "thresholds" \notin DOMAIN expectations
    THEN [k \in DOMAIN expectations \cup {"thresholds"} |->
             IF k = "thresholds" THEN DefaultThresholds ELSE expectations[k]]
    ELSE expectations

\* The reason a predicate contributes to failing_reasons (line 201-202).
Contributed(result) == IF ~result.passed /\ result.reason # <<>>
                       THEN result.reason ELSE <<>>

\* evaluate(): failing_reasons in registry order; the predicates see the
\* dict after the thresholds default has been written.
evaluate(expectations, observations) ==
    LET e == evaluate_expectations(expectations)
        failing_reasons ==
               Contributed(_kpi_min(e, observations))
            \o Contributed(_charts_min(e, observations))
            \o Contributed(_tables_min(e, observations))
            \o Contributed(_filters_required(e, observations))
            \o Contributed(_form_submit_ok(e, observations))
            \o Contributed(_alignment_score(e, observations))
            \o Contributed(_spacing_score(e, observations))
            \o Contributed(_contrast_score(e, observations))
    IN  [passed |-> Len(failing_reasons) = 0,
         failing_reasons |-> failing_reasons]

\* get_fix_instructions: one section per reason, in order; the observations
\* argument is not read by the code.
FixSection(reason) ==
    IF reason.gate = "alignment_score" THEN <<"Layout Alignment">>
    ELSE IF reason.gate = "spacing_score" THEN <<"Spacing and Typography">>
    ELSE IF reason.gate = "contrast_score" THEN <<"Contrast and Readability">>
    ELSE IF reason.gate \in {"kpi_tiles", "charts", "tables", "filters"}
    THEN <<"Missing Component">>
    ELSE IF reason.gate = "form_submit_ok"
            /\ \E i \in 1..Len(reason.parts) : reason.parts[i].id \in
                  {"contact_submit", "newsletter_signup", "login_form"}
    THEN <<"Interaction Failure">>
    ELSE <<>>

RECURSIVE FixSections(_)
FixSections(failing_reasons) ==
    IF failing_reasons = <<>> THEN <<>>
    ELSE FixSection(Head(failing_reasons)) \o FixSections(Tail(failing_reasons))

get_fix_instructions(expectations, observations, failing_reasons) ==
    IF failing_reasons = <<>>
    THEN <<"All quality gates passed. No fixes needed.">>
    ELSE <<"## Required Fixes">> \o FixSections(failing_reasons)

\* ------------------------------------------------------ core/vision_result.py
\* A value that is neither a number nor None (a list, a non-numeric string).
BadVal == -2

_safe_float(value) == IF value = BadVal THEN NoneVal ELSE value

\* VisionInteraction.from_payload, for the fields the gates read.
VisionInteraction_from_payload(data) ==
    [id |-> Get(data, "id", "None"),
     ok |-> Get(data, "ok", FALSE),
     attempted |-> IF "attempted" \in DOMAIN data
                   THEN data["attempted"] ELSE Get(data, "ok", FALSE)]

RECURSIVE MapInteractions(_)
MapInteractions(items) ==
    IF items = <<>> THEN <<>>
    ELSE <<VisionInteraction_from_payload(Head(items))>>
         \o MapInteractions(Tail(items))

_default_result(error) ==
    [scores |-> [alignment |-> NoneVal, spacing |-> NoneVal,
                 contrast |-> NoneVal],
     interactions |-> <<>>,
     issues |-> <<error>>]

\* parse_vision_payload for a payload that is a dict (data = payload).
parse_vision_payload(data) ==
    IF DOMAIN data = {}
    THEN _default_result("Empty response from Vision agent")
    ELSE LET scores_data == Get(data, "scores", EmptyDict)
         IN  [scores |->
                 [alignment |-> _safe_float(Get(scores_data, "alignment", NoneVal)),
                  spacing |-> _safe_float(Get(scores_data, "spacing", NoneVal)),
                  contrast |-> _safe_float(Get(scores_data, "contrast", NoneVal))],
              interactions |-> MapInteractions(Get(data, "interactions", <<>>)),
              issues |-> <<>>]

\* interactions_map of to_observations: a later entry with the same id wins.
InteractionsMap(interactions) ==
    LET ids == { interactions[i].id : i \in 1..Len(interactions) }
        last(id) == CHOOSE i \in 1..Len(interactions) :
                       /\ interactions[i].id = id
                       /\ \A j \in 1..Len(interactions) :
                             interactions[j].id = id => j <= i
    IN  [id \in ids |-> [attempted |-> interactions[last(id)].attempted,
                         ok |-> interactions[last(id)].ok]]

\* VisionResult.to_observations: no "elements" key is produced.
to_observations(vision_result) ==
    [vision_scores |->
        [key \in {"alignment", "spacing", "contrast"} |->
            IF vision_result.scores[key] # NoneVal
            THEN vision_result.scores[key] ELSE 0],
     scores |-> vision_result.scores,
     interactions |-> InteractionsMap(vision_result.interactions),
     issues |-> vision_result.issues]

\* ---------------------------------------------------------- orchestrator.py
\* _sensory_to_vision_payload: SensoryReport.to_dict() carries no
\* "interactions", "warnings" or "failing_reasons" key.
_sensory_to_vision_payload(report) ==
    [version |-> "1.0",
     scores |-> [alignment |-> report.alignment_score,
                 spacing |-> report.spacing_score,
                 contrast |-> report.contrast_score],
     interactions |-> <<>>]

\* ------------------------------------------------ agents/goal_interpreter.py
\* _build_expectations_heuristic; goal is the set of keywords found in it.
_build_expectations_heuristic(goal) ==
    LET dash == "dashboard" \in goal
    IN  [capabilities |->
            [kpi_tiles |-> [min |-> IF dash THEN 3 ELSE 0],
             charts |-> [min |-> IF dash THEN 1 ELSE 0],
             tables |-> [min |-> IF dash THEN 1 ELSE 0],
             filters |-> [required |-> dash]],
         interactions |->
            IF "contact" \in goal
            THEN <<[id |-> "contact_submit", type |-> "form_submit",
                    selector |-> "#contact", expect_http_2xx |-> TRUE,
                    expect_success_banner |-> TRUE]>>
            ELSE <<>>]

\* An answer of the model behind _build_expectations_llm that also names
\* thresholds (json.loads returns whatever object the answer holds).
LlmThresholds ==
    [alignment_score |-> 800, spacing_score |-> 800, contrast_score |-> 700]

_build_expectations_llm(goal) ==
    LET h == _build_expectations_heuristic(goal)
    IN  [capabilities |-> h.capabilities, interactions |-> h.interactions,
         thresholds |-> LlmThresholds]

\* build_expectations: llm tells whether the LLM path is taken and answers.
build_expectations(goal, llm) ==
    IF llm THEN _build_expectations_llm(goal)
    ELSE _build_expectations_heuristic(goal)

\* ------------------------------------------------------------ core/runtime.py
\* StartCommand.port when it is None (`if command.port:` also skips 0).
NoPort == 0

\* A StartCommand, for the fields ServerManager reads; url is "None" when
\* the command declares none.
StartCommand(kind, port, url) == [kind |-> kind, port |-> port, url |-> url]

\* Line 224: command.url or f"http://localhost:{command.port}".
CommandUrl(command) ==
    IF command.url # "None" THEN command.url
    ELSE IF command.port # NoPort
    THEN "http://localhost:" \o ToString(command.port)
    ELSE "None"

\* Lines 222-226: one candidate per start command that has a url.
RECURSIVE CommandCandidates(_)
CommandCandidates(commands) ==
    IF commands = <<>> THEN <<>>
    ELSE (IF CommandUrl(Head(commands)) # "None"
          THEN <<[kind |-> Head(commands).kind,
                  url |-> CommandUrl(Head(commands))]>>
          ELSE <<>>)
         \o CommandCandidates(Tail(commands))

HasUrl(candidates, url) ==
    \E i \in 1..Len(candidates) : candidates[i].url = url

\* Lines 222-235: the start commands, then the stack's frontend and backend
\* urls when no earlier candidate has them.
Candidates(stk) ==
    LET c1 == CommandCandidates(stk.start_commands)
        c2 == IF stk.frontend_url # "None" /\ ~HasUrl(c1, stk.frontend_url)
              THEN Append(c1, [kind |-> "frontend", url |-> stk.frontend_url])
              ELSE c1
    IN  IF stk.backend_url # "None" /\ ~HasUrl(c2, stk.backend_url)
        THEN Append(c2, [kind |-> "backend", url |-> stk.backend_url])
        ELSE c2

\* Lines 237-243: the first candidate of each url.
RECURSIVE UniqueCandidates(_, _)
UniqueCandidates(candidates, seen) ==
    IF candidates = <<>> THEN <<>>
    ELSE IF Head(candidates).url \in seen
    THEN UniqueCandidates(Tail(candidates), seen)
    ELSE <<Head(candidates)>>
         \o UniqueCandidates(Tail(candidates),
                             seen \cup {Head(candidates).url})

\* What a url answers to a GET: outcome "ok" (urlopen returned, status 2xx),
\* "http_error" (HTTPError with its code) or "url_error" (nothing listens).
\* body is the set of words in the document, node_count its start tags.
Response(outcome, status, node_count, body) ==
    [outcome |-> outcome, status |-> status, node_count |-> node_count,
     body |-> body]

\* _probe_candidate: ServerProbe of one candidate.
_probe_candidate(kind, url, response) ==
    IF response.outcome = "ok"
    THEN [url |-> url, kind |-> kind, status_code |-> response.status,
          is_blank |-> response.body = {} \/ response.node_count <= 1,
          node_count |-> response.node_count, body |-> response.body,
          error |-> "None"]
    ELSE IF response.outcome = "http_error"
    THEN [url |-> url, kind |-> kind, status_code |-> response.status,
          is_blank |-> FALSE, node_count |-> 0, body |-> {},
          error |-> "HTTPError"]
    ELSE [url |-> url, kind |-> kind, status_code |-> NoneVal,
          is_blank |-> FALSE, node_count |-> 0, body |-> {},
          error |-> "URLError"]

\* Lines 245-247.
RECURSIVE ProbeAll(_, _)
ProbeAll(candidates, responses) ==
    IF candidates = <<>> THEN <<>>
    ELSE <<_probe_candidate(Head(candidates).kind, Head(candidates).url,
                            responses[Head(candidates).url])>>
         \o ProbeAll(Tail(candidates), responses)

\* Line 249.
IsHealthy(probe) ==
    /\ probe.status_code # NoneVal
    /\ 200 <= probe.status_code /\ probe.status_code < 300
    /\ probe.error = "None"

\* matches_hints (lines 253-264): hints holds the selectors and keywords.
matches_hints(probe, hints) ==
    IF hints.selectors = {} /\ hints.keywords = {} THEN TRUE
    ELSE \/ hints.selectors \cap probe.body # {}
         \/ hints.keywords \cap probe.body # {}

NoProbe ==
    [url |-> "None", kind |-> "None", status_code |-> NoneVal,
     is_blank |-> FALSE, node_count |-> 0, body |-> {}, error |-> "None"]

ServerSelection(url, probe, fallback_used, message, artifacts) ==
    [url |-> url, probe |-> probe, fallback_used |-> fallback_used,
     message |-> message, artifacts |-> artifacts]

NoSelection ==
    ServerSelection("None", NoProbe, FALSE,
                    [kind |-> "None", url |-> "None", error |-> "None"], {})

\* _capture_blank_artifacts: the keys of the returned dict.
_capture_blank_artifacts == {"dom", "console", "network"}

\* Variant: only the first healthy candidate is considered.
ChooseSurface_FirstHealthy(probes, preferred_kind, hints) ==
    LET healthy == SelectSeq(probes, IsHealthy)
    IN  IF healthy # <<>> /\ ~healthy[1].is_blank THEN healthy[1]
        ELSE NoProbe

\* Lines 249-279: `chosen`, NoProbe when no healthy non-blank probe exists.
ChooseSurface(probes, preferred_kind, hints) ==
    LET healthy == SelectSeq(probes, IsHealthy)
        non_blank == SelectSeq(healthy, LAMBDA p : ~p.is_blank)
        preferred_candidates ==
            SelectSeq(non_blank,
                      LAMBDA p : /\ preferred_kind # "None"
                                 /\ p.kind = preferred_kind
                                 /\ matches_hints(p, hints))
        hint_matches == SelectSeq(non_blank,
                                  LAMBDA p : matches_hints(p, hints))
    IN  IF preferred_candidates # <<>> THEN preferred_candidates[1]
        ELSE IF hint_matches # <<>> THEN hint_matches[1]
        ELSE IF non_blank # <<>> THEN non_blank[1]
        ELSE NoProbe

\* Lines 281-315 of resolve_preview_surface, from the probes on.
SelectSurface(probes, preferred_kind, hints) ==
    LET chosen == ChooseSurface(probes, preferred_kind, hints)
        blank == SelectSeq(probes, LAMBDA p : IsHealthy(p) /\ p.is_blank)
        errors == SelectSeq(probes, LAMBDA p : p.error # "None")
    IN  IF chosen # NoProbe
        THEN ServerSelection(chosen.url, chosen, FALSE,
                             [kind |-> "None", url |-> "None",
                              error |-> "None"], {})
        ELSE IF blank # <<>>
        THEN ServerSelection(blank[1].url, blank[1], TRUE,
                             [kind |-> "blank_fallback", url |-> blank[1].url,
                              error |-> "None"],
                             _capture_blank_artifacts)
        ELSE IF errors # <<>>
        THEN ServerSelection("None", NoProbe, FALSE,
                             [kind |-> "failed_to_reach",
                              url |-> errors[1].url,
                              error |-> errors[1].error], {})
        ELSE ServerSelection("None", NoProbe, FALSE,
                             [kind |-> "no_responsive", url |-> "None",
                              error |-> "None"], {})

\* The probes resolve_preview_surface takes (lines 222-247).
Probes(stk, responses) ==
    ProbeAll(UniqueCandidates(Candidates(stk), {}), responses)

\* ServerManager.resolve_preview_surface
resolve_preview_surface(stk, responses, preferred_kind, hints) ==
    SelectSurface(Probes(stk, responses), preferred_kind, hints)

\* ---------------------------------------- core/runtime.py: start_all, stop_all
\* A spawned process: the index of its command, the port it was declared
\* with, its state (alive, exited, terminated, killed) and whether it
\* listens on its port.
RunningProcess(idx, port) ==
    [command |-> idx, port |-> port, state |-> "alive", listening |-> FALSE]

\* The ports bound by the tracked services themselves.
OwnPorts(procs) ==
    { procs[i].port : i \in { j \in 1..Len(procs) :
                                 procs[j].state = "alive"
                                 /\ procs[j].listening } }

\* _is_port_in_use: something accepts connections on the port.
_is_port_in_use(port, in_use) == port \in in_use

\* Lines 130-134: the conflicting ports, one entry per command.
RECURSIVE PortConflicts(_, _)
PortConflicts(commands, in_use) ==
    IF commands = <<>> THEN <<>>
    ELSE (IF Head(commands).port # NoPort
             /\ _is_port_in_use(Head(commands).port, in_use)
          THEN <<Head(commands).port>> ELSE <<>>)
         \o PortConflicts(Tail(commands), in_use)

\* The start commands with their position in the declaration.
Indexed(commands) ==
    [i \in 1..Len(commands) |->
        [idx |-> i, kind |-> commands[i].kind, port |-> commands[i].port]]

\* Lines 150-154: the stable sort by (kind != preferred, kind != "frontend").
SortKey(command, preferred_kind) ==
    (IF command.kind # preferred_kind THEN 2 ELSE 0)
    + (IF command.kind # "frontend" THEN 1 ELSE 0)

SortCommands(commands, preferred_kind) ==
    IF preferred_kind = "None" THEN commands
    ELSE SelectSeq(commands, LAMBDA c : SortKey(c, preferred_kind) = 0)
      \o SelectSeq(commands, LAMBDA c : SortKey(c, preferred_kind) = 1)
      \o SelectSeq(commands, LAMBDA c : SortKey(c, preferred_kind) = 2)
      \o SelectSeq(commands, LAMBDA c : SortKey(c, preferred_kind) = 3)

\* process.terminate(), then kill() when the process ignores it for the
\* whole grace window.
Terminate(proc, ignores_sigterm) ==
    [proc EXCEPT !.state = IF ignores_sigterm THEN "killed" ELSE "terminated",
                 !.listening = FALSE]

\* Variant: the tracked list is not cleared.
ServerManager_stop_all_NoClear(run, procs, ignores_sigterm) ==
    [running |-> run,
     processes |->
        [i \in 1..Len(procs) |->
            IF (\E k \in 1..Len(run) : run[k] = i) /\ procs[i].state = "alive"
            THEN Terminate(procs[i], ignores_sigterm) ELSE procs[i]],
     terminated |->
        { i \in 1..Len(procs) :
            (\E k \in 1..Len(run) : run[k] = i) /\ procs[i].state = "alive" }]

\* ServerManager.stop_all: every tracked process that is still alive
\* (poll() is None) is terminated; the list is cleared.
ServerManager_stop_all(run, procs, ignores_sigterm) ==
    [running |-> <<>>,
     processes |->
        [i \in 1..Len(procs) |->
            IF (\E k \in 1..Len(run) : run[k] = i) /\ procs[i].state = "alive"
            THEN Terminate(procs[i], ignores_sigterm) ELSE procs[i]],
     terminated |->
        { i \in 1..Len(procs) :
            (\E k \in 1..Len(run) : run[k] = i) /\ procs[i].state = "alive" }]

NoStartError == [type |-> "None", conflicts |-> <<>>, remedies |-> <<>>]
StartError(type) == [type |-> type, conflicts |-> <<>>, remedies |-> <<>>]

\* Variant: the message names the ports but no command to free them.
ConflictError_NoRemedy(port_conflicts) ==
    [type |-> "RuntimeError", conflicts |-> port_conflicts,
     remedies |-> <<>>]

\* Lines 136-143: the aggregated error, one "is already in use" line and
\* one "lsof -ti:<port> | xargs kill -9" line per conflict.
ConflictError(port_conflicts) ==
    [type |-> "RuntimeError", conflicts |-> port_conflicts,
     remedies |-> port_conflicts]

\* Lines 156-196: the spawn loop over the sorted commands.  how[idx] says
\* what the world does with command idx:
\*   no_exe  Popen raises (executable or cwd missing)
\*   ready   the process binds its port in time
\*   exits   the process exits before binding its port
\*   hangs   the process neither exits nor binds its port
RECURSIVE SpawnLoop(_, _, _, _, _)
SpawnLoop(commands, run, procs, how, ignores_sigterm) ==
    IF commands = <<>>
    THEN [running |-> run, processes |-> procs, error |-> NoStartError]
    ELSE LET command == Head(commands)
             pid == Len(procs) + 1
             run1 == Append(run, pid)
             spawned == Append(procs, RunningProcess(command.idx,
                                                     command.port))
         IN  IF how[command.idx] = "no_exe"
             THEN [running |-> run, processes |-> procs,
                   error |-> StartError("OSError")]
             ELSE IF command.port = NoPort
             THEN SpawnLoop(Tail(commands), run1, spawned, how,
                            ignores_sigterm)
             ELSE IF how[command.idx] = "ready"
             THEN SpawnLoop(Tail(commands), run1,
                            [spawned EXCEPT ![pid].listening = TRUE],
                            how, ignores_sigterm)
             ELSE IF how[command.idx] = "exits"
             THEN LET stopped ==
                        ServerManager_stop_all(
                            run1, [spawned EXCEPT ![pid].state = "exited"],
                            ignores_sigterm)
                  IN  [running |-> stopped.running,
                       processes |-> stopped.processes,
                       error |-> StartError("RuntimeError")]
             ELSE LET stopped ==
                        ServerManager_stop_all(
                            run1,
                            [spawned EXCEPT
                                ![pid] = Terminate(@, ignores_sigterm)],
                            ignores_sigterm)
                  IN  [running |-> stopped.running,
                       processes |-> stopped.processes,
                       error |-> StartError("TimeoutError")]

\* ServerManager.start_all: the pre-flight port check, then the spawn loop.
ServerManager_start_all(commands, run, procs, in_use, how, stubborn, kind) ==
    LET port_conflicts == PortConflicts(commands, in_use)
    IN  IF port_conflicts # <<>>
        THEN [running |-> run, processes |-> procs,
              error |-> ConflictError(port_conflicts)]
        ELSE SpawnLoop(SortCommands(Indexed(commands), kind),
                       run, procs, how, stubborn)

\* The outcome of a ServerManager call: the operation, the error that left
\* it, the processes stop_all signalled.
NoResult == [op |-> "None", error |-> NoStartError, terminated |-> {}]

\* _VALID_MODES, the values of config.vision_mode.
VisionModes == {"visual", "hybrid", "qa"}

\* ------------------------- core/vision_result.py: any payload, with warnings
\* A raw payload:
\*   type  "dict", "object" (has to_dict), "str", or "other" (None, a list,
\*         a number handed over as such)
\*   data  the dict, or what to_dict() returns
\*   json  for a string, what json.loads makes of the whole text: "dict",
\*         "list", "number", "string", "bool", "null", or "invalid"
\*   truthy    the truth value of that JSON value
\*   embedded  for an invalid text, what json.loads makes of the part from
\*             the first "{" to the last "}": "dict", "invalid", or "None"
\*             when there is no such part
Payload(type, data, json, truthy, embedded) ==
    [type |-> type, data |-> data, json |-> json, truthy |-> truthy,
     embedded |-> embedded]

JsonValue(kind, truthy, data) ==
    [kind |-> kind, truthy |-> truthy, data |-> data]

EmptyJson == JsonValue("dict", FALSE, EmptyDict)

\* ------------------------------ core/vision_result.py: a payload given as text
\* A text is a sequence of tokens: "{", "}", "scores:" (a key and its
\* colon), "alignment:0.9" (a member) and "noise" (words that are not JSON).
\* json.loads accepts a text that is exactly one object; with these tokens
\* an object holds at most one member.
JsonFailed == [ok |-> FALSE, rest |-> <<>>, value |-> EmptyDict]

RECURSIVE ParseObject(_)
ParseObject(text) ==
    IF Len(text) < 2 \/ text[1] # "{" THEN JsonFailed
    ELSE IF text[2] = "}"
    THEN [ok |-> TRUE, rest |-> SubSeq(text, 3, Len(text)),
          value |-> EmptyDict]
    ELSE IF text[2] = "alignment:0.9"
    THEN IF Len(text) >= 3 /\ text[3] = "}"
         THEN [ok |-> TRUE, rest |-> SubSeq(text, 4, Len(text)),
               value |-> [alignment |-> 900]]
         ELSE JsonFailed
    ELSE IF text[2] = "scores:"
    THEN LET inner == ParseObject(SubSeq(text, 3, Len(text)))
         IN  IF inner.ok /\ inner.rest # <<>> /\ Head(inner.rest) = "}"
             THEN [ok |-> TRUE, rest |-> Tail(inner.rest),
                   value |-> [scores |-> inner.value]]
             ELSE JsonFailed
    ELSE JsonFailed

\* json.loads(text): JSONDecodeError also when text follows the object.
json_loads(text) ==
    LET parsed == ParseObject(text)
    IN  IF parsed.ok /\ parsed.rest = <<>> THEN parsed ELSE JsonFailed

\* str.find and str.rfind, 1-based; 0 when the token does not occur.
find(text, token) ==
    IF \E i \in 1..Len(text) : text[i] = token
    THEN CHOOSE i \in 1..Len(text) :
             text[i] = token /\ \A j \in 1..(i - 1) : text[j] # token
    ELSE 0

rfind(text, token) ==
    IF \E i \in 1..Len(text) : text[i] = token
    THEN CHOOSE i \in 1..Len(text) :
             text[i] = token /\ \A j \in (i + 1)..Len(text) : text[j] # token
    ELSE 0

\* Lines 185-189: the part of the text handed to the second json.loads.
Extracted(text) ==
    LET start == find(text, "{")
        end == rfind(text, "}")
    IN  IF start # 0 /\ end # 0 /\ end > start
        THEN SubSeq(text, start, end) ELSE <<>>

\* Lines 180-192 for a text: what the two json.loads calls make of it.
StrPayload(text) ==
    LET strict == json_loads(text)
        part == Extracted(text)
        second == json_loads(part)
    IN  [type |-> "str",
         data |-> IF strict.ok THEN strict.value
                  ELSE IF part # <<>> /\ second.ok THEN second.value
                  ELSE EmptyDict,
         json |-> IF strict.ok THEN "dict" ELSE "invalid",
         truthy |-> strict.ok /\ DOMAIN strict.value # {},
         embedded |-> IF strict.ok \/ part = <<>> THEN "None"
                      ELSE IF second.ok THEN "dict" ELSE "invalid",
         text |-> text]

\* _coerce_dict: the value handed on as `data`, and the warnings.
_coerce_dict(payload) ==
    IF payload.type \in {"dict", "object"}
    THEN [value |-> JsonValue("dict", DOMAIN payload.data # {},
                              payload.data),
          warnings |-> <<>>]
    ELSE IF payload.type = "str"
    THEN IF payload.json # "invalid"
         THEN [value |-> JsonValue(payload.json, payload.truthy,
                                   payload.data),
               warnings |-> <<>>]
         ELSE IF payload.embedded = "dict"
         THEN [value |-> JsonValue("dict", DOMAIN payload.data # {},
                                   payload.data),
               warnings |-> <<"JSON decode failed">>]
         ELSE IF payload.embedded = "invalid"
         THEN [value |-> EmptyJson,
               warnings |-> <<"JSON decode failed",
                              "Fallback JSON extraction failed">>]
         ELSE [value |-> EmptyJson, warnings |-> <<"JSON decode failed">>]
    ELSE [value |-> EmptyJson, warnings |-> <<>>]

\* Lines 211-216: the mode of the result and the warning about it.
PayloadMode(data, mode) ==
    LET given == Get(data, "mode", mode)
        lowered == IF given = "QA" THEN "qa" ELSE given
    IN  IF lowered \in VisionModes
        THEN [mode |-> lowered, warnings |-> <<>>]
        ELSE [mode |-> mode, warnings |-> <<"Unknown vision mode">>]

NotParsed ==
    [raised |-> "None", called |-> FALSE, result |-> _default_result("None"),
     mode |-> "None", warnings |-> <<>>]

\* parse_vision_payload(payload, url=..., mode=...), for any payload: the
\* exception that leaves the call, or the result and the warnings.
ParseVisionPayload(payload, mode) ==
    LET coerced == _coerce_dict(payload)
        data == coerced.value
    IN  IF ~data.truthy
        THEN [raised |-> "None", called |-> TRUE,
              result |-> _default_result("Empty response from Vision agent"),
              mode |-> mode, warnings |-> coerced.warnings]
        ELSE IF data.kind # "dict"
        THEN [raised |-> "AttributeError", called |-> TRUE,
              result |-> _default_result("None"), mode |-> "None",
              warnings |-> <<>>]
        ELSE [raised |-> "None", called |-> TRUE,
              result |-> parse_vision_payload(data.data),
              mode |-> PayloadMode(data.data, mode).mode,
              warnings |-> coerced.warnings
                           \o PayloadMode(data.data, mode).warnings]

\* The outcome of one gate predicate: (passed, reason).
NoGateOutcome == [gate |-> "None", passed |-> TRUE, reason |-> <<>>]

\* ------------------------------------------------------------ core/intent.py
\* A text is the sequence of its characters; `keyword in text` is substring
\* containment.
Contains(text, keyword) ==
    \E i \in 1..(Len(text) - Len(keyword) + 1) :
        SubSeq(text, i, i + Len(keyword) - 1) = keyword

UpperCase == <<"A", "B", "C", "D", "E", "F", "G", "H", "I", "J", "K", "L", "M",
               "N", "O", "P", "Q", "R", "S", "T", "U", "V", "W", "X", "Y", "Z">>
LowerCase == <<"a", "b", "c", "d", "e", "f", "g", "h", "i", "j", "k", "l", "m",
               "n", "o", "p", "q", "r", "s", "t", "u", "v", "w", "x", "y", "z">>

\* str.lower()
Lower(text) ==
    [i \in 1..Len(text) |->
        IF \E k \in 1..Len(UpperCase) : UpperCase[k] = text[i]
        THEN LowerCase[CHOOSE k \in 1..Len(UpperCase) : UpperCase[k] = text[i]]
        ELSE text[i]]

_UI_KEYWORDS ==
    { <<"u", "i">>,
      <<"u", "x">>,
      <<"d", "e", "s", "i", "g", "n">>,
      <<"s", "p", "a", "c", "i", "n", "g">>,
      <<"a", "l", "i", "g", "n", "m", "e", "n", "t">>,
      <<"c", "o", "n", "t", "r", "a", "s", "t">>,
      <<"a", "c", "c", "e", "s", "s", "i", "b", "i", "l", "i", "t", "y">>,
      <<"r", "e", "s", "p", "o", "n", "s", "i", "v", "e">>,
      <<"l", "a", "y", "o", "u", "t">>,
      <<"t", "y", "p", "o", "g", "r", "a", "p", "h", "y">>,
      <<"v", "i", "s", "u", "a", "l">>,
      <<"s", "t", "y", "l", "e">>,
      <<"p", "a", "d", "d", "i", "n", "g">> }

_REFINE_KEYWORDS ==
    { <<"r", "e", "f", "i", "n", "e">>,
      <<"i", "m", "p", "r", "o", "v", "e">>,
      <<"f", "i", "x">>,
      <<"t", "w", "e", "a", "k">>,
      <<"p", "o", "l", "i", "s", "h">>,
      <<"o", "p", "t", "i", "m", "i", "z", "e">>,
      <<"e", "n", "h", "a", "n", "c", "e">>,
      <<"u", "p", "d", "a", "t", "e">>,
      <<"a", "d", "j", "u", "s", "t">>,
      <<"r", "e", "p", "a", "i", "r">>,
      <<"u", "p", "g", "r", "a", "d", "e">>,
      <<"c", "l", "e", "a", "n", "u", "p">>,
      <<"c", "l", "e", "a", "n", " ", "u", "p">>,
      <<"b", "u", "g">>,
      <<"i", "s", "s", "u", "e">>,
      <<"r", "e", "g", "r", "e", "s", "s", "i", "o", "n">> }

_CREATE_KEYWORDS ==
    { <<"c", "r", "e", "a", "t", "e">>,
      <<"b", "u", "i", "l", "d">>,
      <<"s", "c", "a", "f", "f", "o", "l", "d">>,
      <<"g", "e", "n", "e", "r", "a", "t", "e">>,
      <<"s", "t", "a", "r", "t">>,
      <<"n", "e", "w">>,
      <<"f", "r", "o", "m", " ", "s", "c", "r", "a", "t", "c", "h">> }

TopicKeywords_bug ==
    { <<"b", "u", "g">>,
      <<"f", "i", "x">>,
      <<"e", "r", "r", "o", "r">>,
      <<"r", "e", "g", "r", "e", "s", "s", "i", "o", "n">>,
      <<"b", "r", "o", "k", "e", "n">>,
      <<"f", "a", "i", "l">> }

TopicKeywords_feature ==
    { <<"a", "d", "d">>,
      <<"i", "m", "p", "l", "e", "m", "e", "n", "t">>,
      <<"s", "u", "p", "p", "o", "r", "t">>,
      <<"f", "e", "a", "t", "u", "r", "e">>,
      <<"i", "n", "t", "e", "g", "r", "a", "t", "e">> }

TopicKeywords_infra ==
    { <<"d", "e", "p", "l", "o", "y">>,
      <<"p", "i", "p", "e", "l", "i", "n", "e">>,
      <<"c", "i">>,
      <<"i", "n", "f", "r", "a", "s", "t", "r", "u", "c", "t", "u", "r", "e">>,
      <<"b", "u", "i", "l", "d", " ", "s", "y", "s", "t", "e", "m">>,
      <<"d", "o", "c", "k", "e", "r">> }

TopicKeywords_data_pipeline ==
    { <<"e", "t", "l">>,
      <<"i", "n", "g", "e", "s", "t">>,
      <<"d", "a", "t", "a">>,
      <<"p", "i", "p", "e", "l", "i", "n", "e">>,
      <<"w", "a", "r", "e", "h", "o", "u", "s", "e">>,
      <<"a", "n", "a", "l", "y", "t", "i", "c", "s">> }

\* _TOPIC_KEYWORDS in the order the dict is iterated.
_TOPIC_KEYWORDS ==
    << [name |-> "ui_ux", keywords |-> _UI_KEYWORDS],
       [name |-> "bug", keywords |-> TopicKeywords_bug],
       [name |-> "feature", keywords |-> TopicKeywords_feature],
       [name |-> "infra", keywords |-> TopicKeywords_infra],
       [name |-> "data_pipeline", keywords |-> TopicKeywords_data_pipeline] >>

\* Line 69: the alternatives of re.search(r"ui|ux|design|spacing|contrast").
UiPattern ==
    { <<"u", "i">>,
      <<"u", "x">>,
      <<"d", "e", "s", "i", "g", "n">>,
      <<"s", "p", "a", "c", "i", "n", "g">>,
      <<"c", "o", "n", "t", "r", "a", "s", "t">> }

\* Line 77.
BugOverride ==
    { <<"b", "u", "g">>,
      <<"i", "s", "s", "u", "e">>,
      <<"f", "i", "x">> }

_contains_any(text, keywords) ==
    \E keyword \in keywords : Contains(Lower(text), keyword)

\* Confidence is held in thousandths, like the scores.
IntentResult(intent, topic, confidence) ==
    [called |-> TRUE, intent |-> intent, topic |-> topic,
     confidence |-> confidence]

\* Lines 81-87.
BaseConfidence(intent, mentioned_new, mentioned_refine, has_code) ==
    IF intent = "create" /\ mentioned_new THEN 850
    ELSE IF intent = "refine" /\ mentioned_refine THEN 850
    ELSE IF intent = "refine" /\ has_code THEN 700
    ELSE 600

classify_intent(goal, has_code) ==
    LET lowered == Lower(goal)
        mentioned_new == _contains_any(lowered, _CREATE_KEYWORDS)
        mentioned_refine == _contains_any(lowered, _REFINE_KEYWORDS)
        intent == IF ~has_code /\ ~mentioned_refine THEN "create"
                  ELSE IF mentioned_new /\ ~mentioned_refine THEN "create"
                  ELSE "refine"
        matched == { i \in 1..Len(_TOPIC_KEYWORDS) :
                       _contains_any(lowered, _TOPIC_KEYWORDS[i].keywords) }
        first == CHOOSE i \in matched : \A j \in matched : i <= j
        topic1 == IF matched = {} THEN "feature"
                  ELSE _TOPIC_KEYWORDS[first].name
        topic2 == IF topic1 # "ui_ux" /\ intent = "refine"
                     /\ ~mentioned_refine /\ has_code
                     /\ _contains_any(lowered, UiPattern)
                  THEN "ui_ux" ELSE topic1
        topic3 == IF topic2 = "feature" /\ intent = "refine"
                     /\ _contains_any(lowered, _UI_KEYWORDS)
                  THEN "ui_ux" ELSE topic2
        topic == IF topic3 = "feature"
                    /\ _contains_any(lowered, BugOverride)
                 THEN "bug" ELSE topic3
        confidence == BaseConfidence(intent, mentioned_new,
                                     mentioned_refine, has_code)
    IN  IntentResult(intent, topic,
                     IF topic = "ui_ux"
                        /\ _contains_any(lowered, _UI_KEYWORDS)
                        /\ confidence < 800
                     THEN 800 ELSE confidence)

\* ---------------------------------- core/runtime.py: ServerManager._wait_for_port
\* The process handed to _wait_for_port: what it wrote to stderr and stdout
\* (as lines, none of them blank), whether it outlives terminate(), and the
\* signals it was sent.
Process(stderr, stdout, stubborn) ==
    [given |-> TRUE, alive |-> TRUE, stderr |-> stderr, stdout |-> stdout,
     stubborn |-> stubborn, signals |-> <<>>]

\* `description or f"Service on port {port}"`.
WaitSubject(args) ==
    IF args.description # "None" THEN args.description
    ELSE "Service on port " \o ToString(args.port)

\* `(stderr or stdout or "").strip()`, as lines.
Detail(proc) == IF proc.stderr # <<>> THEN proc.stderr ELSE proc.stdout

\* `detail.splitlines()[0]`.
DetailLine(detail) == detail[1]

\* The message of an error: the subject, then `with_detail` and a line of
\* the output when there is output, else `without`.
WaitMessage(args, proc, with_detail, without) ==
    IF Detail(proc) # <<>>
    THEN <<WaitSubject(args), with_detail, DetailLine(Detail(proc))>>
    ELSE <<WaitSubject(args), without>>

WaitResult(outcome, message) == [outcome |-> outcome, message |-> message]

\* Lines 388-393: terminate(), and kill() when communicate times out.
TerminateWaited(proc) ==
    [proc EXCEPT !.alive = FALSE,
                 !.signals = IF proc.stubborn THEN <<"terminate", "kill">>
                             ELSE <<"terminate">>]

\* --------------------------------------------- values before a call is made
NoPlan == [called |-> FALSE, steps |-> <<>>]
NoIntent == [called |-> FALSE, intent |-> "None", topic |-> "None",
             confidence |-> 0]
NoProcess == [given |-> FALSE, alive |-> FALSE, stderr |-> <<>>,
              stdout |-> <<>>, stubborn |-> FALSE, signals |-> <<>>]
NoWaitResult == [outcome |-> "None", message |-> <<>>]

\* ============================================================ run_workflow
\* Inputs of a run.
Goals == { {}, {"dashboard"}, {"contact"} }
Intents == {"create", "refine", "other"}
Topics == {"ui_ux", "feature"}
EnvKeys == {"SYMPHONY_BRAIN_API_KEY", "SYMPHONY_VISION_API_KEY"}
NumCommands == 2

\* The detected stack: a frontend dev server and backend services, each
\* declared with a port.
DetectedCommands ==
    [i \in 1..NumCommands |->
        StartCommand(IF i = 1 THEN "frontend" ELSE "backend",
                     IF i = 1 THEN 5173 ELSE 7999 + i, "None")]

DetectedStack ==
    [start_commands |-> DetectedCommands, frontend_url |-> "None",
     backend_url |-> "None"]

DetectedUrls == { CommandUrl(DetectedCommands[i]) : i \in 1..NumCommands }

\* What a started service may answer when it is probed.
SampleResponses ==
    { Response("ok", 200, 5, {"section", "form", "#contact"}),
      Response("ok", 200, 4, {"table"}),
      Response("ok", 200, 1, {"div"}),
      Response("url_error", NoneVal, 0, {}) }

PreviewResponses == [DetectedUrls -> SampleResponses]

\* _build_preview_hints
_build_preview_hints(exp, mode) ==
    LET interactions == Get(exp, "interactions", <<>>)
        selectors ==
            IF mode = "qa"
            THEN { interactions[i].selector :
                     i \in { j \in 1..Len(interactions) :
                               "selector" \in DOMAIN interactions[j] } }
            ELSE {}
    IN  [selectors |-> selectors,
         keywords |-> IF mode = "qa"
                      THEN (IF selectors # {} THEN {"form"} ELSE {})
                      ELSE {"section", "header", "hero"}]

\* Lines 424-426.
PreferredKind(intent) == IF intent.topic = "ui_ux" THEN "frontend" ELSE "None"

\* What hooks.run_vision may return: a SensoryReport (DefaultAgentHooks) or
\* a plain dict (injected hooks).
RawReports ==
    { [type |-> "SensoryReport",
       data |-> [alignment_score |-> 600, spacing_score |-> 600,
                 contrast_score |-> 600]],
      [type |-> "SensoryReport",
       data |-> [alignment_score |-> 950, spacing_score |-> 950,
                 contrast_score |-> 950]],
      [type |-> "dict",
       data |-> [scores |-> [alignment |-> 950, spacing |-> 940,
                             contrast |-> 920],
                 interactions |-> <<>>]],
      [type |-> "dict",
       data |-> [scores |-> [alignment |-> 899, spacing |-> 940,
                             contrast |-> 920],
                 interactions |-> <<>>]],
      [type |-> "dict", data |-> EmptyDict],
      [type |-> "dict",
       data |-> [scores |-> [alignment |-> 950, spacing |-> 940,
                             contrast |-> 920],
                 elements |-> [kpi_tiles |-> 3, charts |-> 1, tables |-> 1,
                               filters |-> 1],
                 interactions |->
                     <<[id |-> "contact_submit", ok |-> TRUE,
                        attempted |-> TRUE, http_status |-> 200,
                        success_banner |-> TRUE,
                        error_banner |-> FALSE]>>]] }

NoReport == [type |-> "None", id |-> 0]
NoList == [set |-> FALSE, val |-> <<>>]
SomeList(l) == [set |-> TRUE, val |-> l]
NoMessage == [kind |-> "None", reasons |-> <<>>]
NoCall == [kind |-> "None", pass |-> 0, report |-> 0, reasons |-> <<>>,
           text |-> <<>>]
NoVision == [id |-> 0, pass |-> 0, reasons |-> <<>>, payload |-> EmptyDict]
NoError == [type |-> "None", names |-> {}]

VARIABLES
    pc,                    \* position in run_workflow
    config,                \* WorkflowConfig: max_passes, open_browser, dry_run
    detected_intent,       \* IntentResult: intent, topic
    env,                   \* os.environ: the credential variables that are set
    goal,                  \* keywords of config.goal
    llm,                   \* build_expectations takes the LLM path
    plan, expectations, summary,
    index, step_idx, changes_made, pass_report, failing_reasons,
    pass_outcome, last_report, last_failures, stagnation_counter,
    success, keep_servers_running, preview_url, selection,
    server_manager,        \* created, running (tracked processes), stop_calls
    exit,                  \* how the try block is left: none, return, raise
    error,                 \* the exception in flight: type, variables it names
    \* observation of the run, not read by any guard:
    calls,                 \* number of hooks.run_brain / run_vision calls
    first_agent,           \* agent of the first call
    last_brain,            \* what the latest run_brain call received
    last_vision,           \* the latest vision step: id, pass, gate reasons,
                           \* the payload that was parsed
    built_expectations,    \* what build_expectations returned
    browser_opened,
    stopped_in_finally,
    \* a ServerManager driven on its own:
    stack,                 \* StackInfo: start_commands, frontend/backend url
    ports_in_use,          \* ports bound by other programs
    behaviour,             \* what each start command does when spawned
    ignores_sigterm,       \* the services do not exit on terminate()
    running,               \* ServerManager.running: the tracked processes
    processes,             \* every process spawned so far
    sm_calls,              \* number of start_all / stop_all calls
    sm_result,             \* outcome of the latest call
    \* resolve_preview_surface on its own:
    preview_responses, preview_kind, preview_hints, preview_selection,
    \* parse_vision_payload on its own:
    raw_payload, parse_mode, parse_outcome,
    \* a gate predicate on its own:
    gate_expectations, gate_observations, gate_outcome,
    \* build_agent_plan on its own:
    route_intent, route_flag, route_plan,
    \* classify_intent on its own:
    ci_goal, ci_has_code, ci_result,
    \* _wait_for_port on its own:
    wait_args,             \* timeout, description
    wait_proc,             \* the owning process: alive, output, signals
    wait_port_open,        \* the port accepts connections
    wait_elapsed,          \* seconds since the wait began
    wait_result            \* how the wait ended

inputs == <<config, detected_intent, env, goal, llm>>
locals == <<index, step_idx, changes_made, pass_report, failing_reasons,
            pass_outcome, last_report, last_failures, stagnation_counter,
            success>>
observed == <<calls, first_agent, last_brain, last_vision>>
run_vars == <<pc, inputs, plan, expectations, summary, locals,
              keep_servers_running, preview_url, selection, server_manager,
              exit, error, observed, built_expectations, browser_opened,
              stopped_in_finally>>
server_vars == <<stack, ports_in_use, behaviour, ignores_sigterm, running,
                 processes, sm_calls, sm_result>>
preview_vars == <<preview_responses, preview_kind, preview_hints,
                  preview_selection>>
parse_vars == <<raw_payload, parse_mode, parse_outcome>>
gate_vars == <<gate_expectations, gate_observations, gate_outcome>>
router_vars == <<route_intent, route_flag, route_plan>>
intent_vars == <<ci_goal, ci_has_code, ci_result>>
wait_vars == <<wait_args, wait_proc, wait_port_open, wait_elapsed,
               wait_result>>
component_vars == <<server_vars, preview_vars, parse_vars, gate_vars,
                    router_vars, intent_vars, wait_vars>>
vars == <<run_vars, component_vars>>

\* The components when they are not driven on their own.
ServerAtRest ==
    /\ stack = DetectedStack
    /\ ports_in_use = {}
    /\ behaviour = <<>>
    /\ ignores_sigterm = FALSE
    /\ running = <<>>
    /\ processes = <<>>
    /\ sm_calls = 0
    /\ sm_result = NoResult

PreviewAtRest ==
    /\ preview_responses = EmptyDict
    /\ preview_kind = "None"
    /\ preview_hints = [selectors |-> {}, keywords |-> {}]
    /\ preview_selection = NoSelection

ParseAtRest ==
    /\ raw_payload = Payload("other", EmptyDict, "None", FALSE, "None")
    /\ parse_mode = "visual"
    /\ parse_outcome = NotParsed

GatesAtRest ==
    /\ gate_expectations = EmptyDict
    /\ gate_observations = EmptyDict
    /\ gate_outcome = NoGateOutcome

RouterAtRest ==
    /\ route_intent = [intent |-> "create", topic |-> "feature"]
    /\ route_flag = FALSE
    /\ route_plan = NoPlan

IntentAtRest ==
    /\ ci_goal = <<>>
    /\ ci_has_code = FALSE
    /\ ci_result = NoIntent

WaitAtRest ==
    /\ wait_args = [timeout |-> 0, description |-> "None"]
    /\ wait_proc = NoProcess
    /\ wait_port_open = FALSE
    /\ wait_elapsed = 0
    /\ wait_result = NoWaitResult

\* Every component at rest but the one a specification drives.
OthersAtRest == RouterAtRest /\ IntentAtRest /\ WaitAtRest

\* The arguments and the environment of a run.
InputsInit ==
    /\ config \in [max_passes : 1..MaxPasses, open_browser : BOOLEAN,
                   dry_run : BOOLEAN]
    /\ detected_intent \in [intent : Intents, topic : Topics]
    /\ env \in SUBSET EnvKeys
    /\ goal \in Goals
    /\ llm \in BOOLEAN

\* Lines 345-361: the locals of run_workflow before the try block.
RunInit ==
    /\ pc = "plan"
    /\ plan = <<>>
    /\ expectations = EmptyDict
    /\ built_expectations = EmptyDict
    /\ summary = [passes |-> <<>>, status |-> "unknown",
                  final_message |-> NoMessage]
    /\ index = 0 /\ step_idx = 0
    /\ changes_made = FALSE
    /\ pass_report = NoReport
    /\ failing_reasons = <<>>
    /\ pass_outcome = FALSE
    /\ last_report = NoReport
    /\ last_failures = NoList
    /\ stagnation_counter = 0
    /\ success = FALSE
    /\ keep_servers_running = FALSE
    /\ preview_url = "None"
    /\ selection = NoSelection
    /\ server_manager = [created |-> FALSE, running |-> 0, stop_calls |-> 0]
    /\ exit = "none"
    /\ error = NoError
    /\ calls = 0
    /\ first_agent = "None"
    /\ last_brain = NoCall
    /\ last_vision = NoVision
    /\ browser_opened = FALSE
    /\ stopped_in_finally = FALSE

Init == InputsInit /\ RunInit /\ ServerAtRest /\ PreviewAtRest
        /\ ParseAtRest /\ GatesAtRest /\ OthersAtRest

\* ServerManager.stop_all: every tracked process is terminated, list cleared.
stop_all(sm) == [sm EXCEPT !.running = 0, !.stop_calls = @ + 1]

\* Leave the try block: by `return summary` or by an exception.
Return == /\ pc' = "finally" /\ exit' = "return" /\ error' = NoError
Raise(type, names) ==
    /\ pc' = "finally" /\ exit' = "raise"
    /\ error' = [type |-> type, names |-> names]

\* Variant: the dry_run flag is not consulted.
DryRun_Ignored(cfg) == FALSE

\* Line 404: `if config.dry_run:`.
DryRun(cfg) == cfg.dry_run

\* Lines 374-411: stack and intent are given, the plan is built; a dry run
\* returns here.
Plan ==
    /\ pc = "plan"
    /\ plan' = build_agent_plan(detected_intent.intent,
                                detected_intent.topic, TRUE)
    /\ IF DryRun(config)
       THEN /\ summary' = [summary EXCEPT !.status = "dry_run"]
            /\ Return
       ELSE /\ pc' = "require_keys"
            /\ UNCHANGED <<summary, exit, error>>
    /\ UNCHANGED <<component_vars, inputs, expectations, locals, keep_servers_running,
                   preview_url, selection, server_manager, observed,
                   built_expectations, browser_opened, stopped_in_finally>>

\* Lines 413-415: _require_api_keys(agents_needed), then ServerManager(...).
RequireApiKeys ==
    /\ pc = "require_keys"
    /\ IF MissingKeys(required_agents(plan), env) # {}
       THEN /\ Raise("RuntimeError",
                     MissingKeys(required_agents(plan), env))
            /\ UNCHANGED server_manager
       ELSE /\ server_manager' = [server_manager EXCEPT !.created = TRUE]
            /\ pc' = "start_all"
            /\ UNCHANGED <<exit, error>>
    /\ UNCHANGED <<component_vars, inputs, plan, expectations, summary, locals,
                   keep_servers_running, preview_url, selection, observed,
                   built_expectations, browser_opened, stopped_in_finally>>

\* Lines 427-446: server_manager.start_all and its except clauses.
\*   ok            every command spawned and ready
\*   port_conflict RuntimeError before anything is spawned
\*   exit_early    RuntimeError from _wait_for_port, after start_all's stop_all
\*   timeout       TimeoutError from _wait_for_port, after start_all's stop_all
\*   spawn_error   Popen raises for a later command: the earlier ones stay
\*                 tracked and the exception matches neither except clause
StartAll ==
    /\ pc = "start_all"
    /\ \E outcome \in {"ok", "port_conflict", "exit_early", "timeout",
                       "spawn_error"} :
         \E spawned \in 0..(NumCommands - 1) :
           /\ (outcome # "spawn_error" => spawned = 0)
           /\ server_manager' =
                IF outcome = "ok"
                THEN [server_manager EXCEPT !.running = NumCommands]
                ELSE IF outcome = "spawn_error"
                THEN [server_manager EXCEPT !.running = spawned]
                ELSE IF outcome = "port_conflict" THEN server_manager
                ELSE stop_all(server_manager)
           /\ IF outcome = "ok"
              THEN /\ pc' = "expectations"
                   /\ UNCHANGED <<summary, exit, error>>
              ELSE /\ Raise(IF outcome = "spawn_error" THEN "OSError"
                            ELSE "RuntimeError", {})
                   /\ summary' =
                        IF outcome = "spawn_error" THEN summary
                        ELSE [summary EXCEPT
                                 !.status = "error",
                                 !.final_message =
                                     [kind |-> outcome, reasons |-> <<>>]]
    /\ UNCHANGED <<component_vars, inputs, plan, expectations, locals, keep_servers_running,
                   preview_url, selection, observed, built_expectations,
                   browser_opened, stopped_in_finally>>

\* Line 502 and line 604.
KeepServersRunning(open_browser, url) == open_browser /\ url # "None"

\* Variant: a blank selection is treated like any other.
IsBlankSelection_Ignored(sel) == FALSE

\* Line 480: `if selection.probe and selection.probe.is_blank:`.
IsBlankSelection(sel) == sel.probe # NoProbe /\ sel.probe.is_blank

\* Lines 455-515: build_expectations, resolve_preview_surface, loop locals.
\* A blank selection or a selection without url returns status "error".
BuildExpectations ==
    /\ pc = "expectations"
    /\ expectations' = build_expectations(goal, llm)
    /\ built_expectations' = expectations'
    /\ \E responses \in PreviewResponses, mode \in VisionModes :
         selection' =
             resolve_preview_surface(DetectedStack, responses,
                                     PreferredKind(detected_intent),
                                     _build_preview_hints(expectations', mode))
    /\ preview_url' = selection'.url
    /\ IF IsBlankSelection(selection')
       THEN /\ summary' = [summary EXCEPT
                              !.status = "error",
                              !.final_message =
                                  [kind |-> "blank", reasons |-> <<>>]]
            /\ keep_servers_running' = FALSE
            /\ Return
            /\ UNCHANGED index
       ELSE IF preview_url' = "None"
       THEN /\ summary' = [summary EXCEPT
                              !.status = "error",
                              !.final_message =
                                  [kind |-> "none", reasons |-> <<>>]]
            /\ keep_servers_running' = FALSE
            /\ Return
            /\ UNCHANGED index
       ELSE /\ keep_servers_running' =
                   KeepServersRunning(config.open_browser, preview_url')
            /\ index' = 1
            /\ pc' = "pass_start"
            /\ UNCHANGED <<summary, exit, error>>
    /\ UNCHANGED <<component_vars, inputs, plan, step_idx, changes_made, pass_report,
                   failing_reasons, pass_outcome, last_report, last_failures,
                   stagnation_counter, success, server_manager, observed,
                   browser_opened, stopped_in_finally>>

\* Lines 517-522: the head of `for index in range(1, max_passes + 1)`.
PassStart ==
    /\ pc = "pass_start"
    /\ IF index <= config.max_passes
       THEN /\ changes_made' = FALSE
            /\ pass_report' = NoReport
            /\ failing_reasons' = <<>>
            /\ pass_outcome' = FALSE
            /\ step_idx' = 1
            /\ pc' = "step"
       ELSE /\ pc' = "after_loop"
            /\ UNCHANGED <<changes_made, pass_report, failing_reasons,
                           pass_outcome, step_idx>>
    /\ UNCHANGED <<component_vars, inputs, plan, expectations, summary, index, last_report,
                   last_failures, stagnation_counter, success,
                   keep_servers_running, preview_url, selection, server_manager, exit,
                   error, observed, built_expectations, browser_opened,
                   stopped_in_finally>>

PassOutcome(idx, vision_passed, changed, reasons, note) ==
    [index |-> idx, vision_passed |-> vision_passed, changes_made |-> changed,
     failing_reasons |-> reasons, summary |-> note]

\* Variant: the new outcome replaces the recorded ones.
add_pass_Replace(s, outcome) == [s EXCEPT !.passes = <<outcome>>]

\* WorkflowSummary.add_pass
add_pass(s, outcome) == [s EXCEPT !.passes = Append(@, outcome)]

\* Variant: a single failing reason still counts as a pass.
GatesPassed_Lenient(reasons) == Len(reasons) <= 1

\* Line 577: `if failing_reasons:` ... `else:` (the gates passed).
GatesPassed(reasons) == reasons = <<>>

\* Where control goes after step number i of the plan has run to its end.
AfterStep(i) == IF i + 1 > Len(plan) THEN "pass_end" ELSE "step"

FirstAgent(agent) == IF first_agent = "None" THEN agent ELSE first_agent

\* Variant: a report kept from the pass before stays in place.
LastReportAfterVision_Keep(l_report, vision_result) ==
    IF l_report # NoReport THEN l_report ELSE vision_result

\* Line 606: `last_report = vision_result`.
LastReportAfterVision(l_report, vision_result) == vision_result

\* Lines 526-606: a vision step whose run_vision call returns raw.
VisionStep ==
    /\ pc = "step"
    /\ step_idx <= Len(plan)
    /\ plan[step_idx] = "vision"
    /\ \E raw \in RawReports :
         LET id == last_vision.id + 1
             payload == IF raw.type = "SensoryReport"
                        THEN _sensory_to_vision_payload(raw.data)
                        ELSE raw.data
             vision_result == parse_vision_payload(payload)
             report_data == to_observations(vision_result)
             gate_result == evaluate(expectations, report_data)
         IN  /\ pass_report' = IF raw.type = "SensoryReport"
                               THEN [type |-> "SensoryReport", id |-> id]
                               ELSE NoReport
             /\ expectations' = evaluate_expectations(expectations)
             /\ failing_reasons' = gate_result.failing_reasons
             /\ last_vision' = [id |-> id, pass |-> index,
                                reasons |-> gate_result.failing_reasons,
                                payload |-> payload]
             /\ IF GatesPassed(failing_reasons')
                THEN /\ summary' =
                          [add_pass(summary,
                                    PassOutcome(index, TRUE, changes_made,
                                                <<>>, "passed"))
                             EXCEPT !.status = "success",
                                    !.final_message =
                                        [kind |-> "success", reasons |-> <<>>]]
                     /\ pass_outcome' = TRUE
                     /\ success' = TRUE
                     /\ keep_servers_running' =
                          KeepServersRunning(config.open_browser, preview_url)
                     /\ pc' = "pass_end"
                     /\ UNCHANGED <<last_report, step_idx>>
                ELSE /\ last_report' =
                          LastReportAfterVision(
                              last_report,
                              [type |-> "VisionResult", id |-> id])
                     /\ step_idx' = step_idx + 1
                     /\ pc' = AfterStep(step_idx)
                     /\ UNCHANGED <<summary, pass_outcome, success,
                                    keep_servers_running>>
    /\ calls' = calls + 1
    /\ first_agent' = FirstAgent("vision")
    /\ UNCHANGED <<component_vars, inputs, plan, index, changes_made, last_failures,
                   stagnation_counter, preview_url, selection, server_manager, exit, error,
                   last_brain, built_expectations, browser_opened,
                   stopped_in_finally>>

\* Lines 542-548: hooks.run_vision raises.
VisionRaises ==
    /\ pc = "step"
    /\ step_idx <= Len(plan)
    /\ plan[step_idx] = "vision"
    /\ pass_report' = NoReport
    /\ calls' = calls + 1
    /\ first_agent' = FirstAgent("vision")
    /\ Raise("AgentError", {})
    /\ UNCHANGED <<component_vars, inputs, plan, expectations, summary, index, step_idx,
                   changes_made, failing_reasons, pass_outcome, last_report,
                   last_failures, stagnation_counter, success,
                   keep_servers_running, preview_url, selection, server_manager,
                   last_brain, last_vision, built_expectations,
                   browser_opened, stopped_in_finally>>

\* Lines 613-638: the instructions handed to hooks.run_brain.
BrainInstructions(idx, p_report, l_report, reasons, exp) ==
    IF p_report = NoReport /\ l_report = NoReport
    THEN [kind |-> "generation", pass |-> idx, report |-> 0,
          reasons |-> <<>>, text |-> <<"generation">>]
    ELSE LET report_for_fix == IF p_report # NoReport THEN p_report
                               ELSE l_report
         IN  [kind |-> "fix", pass |-> idx, report |-> report_for_fix.id,
              reasons |-> reasons,
              text |-> get_fix_instructions(exp, report_for_fix, reasons)]

\* Lines 607-667: a brain step.
BrainStep ==
    /\ pc = "step"
    /\ step_idx <= Len(plan)
    /\ plan[step_idx] = "brain"
    /\ last_brain' = BrainInstructions(index, pass_report, last_report,
                                       failing_reasons, expectations)
    /\ calls' = calls + 1
    /\ first_agent' = FirstAgent("brain")
    /\ changes_made' = TRUE
    /\ step_idx' = step_idx + 1
    /\ pc' = AfterStep(step_idx)
    /\ UNCHANGED <<component_vars, inputs, plan, expectations, summary, index, pass_report,
                   failing_reasons, pass_outcome, last_report, last_failures,
                   stagnation_counter, success, keep_servers_running,
                   preview_url, selection, server_manager, exit, error, last_vision,
                   built_expectations, browser_opened, stopped_in_finally>>

\* Line 644: hooks.run_brain raises.
BrainRaises ==
    /\ pc = "step"
    /\ step_idx <= Len(plan)
    /\ plan[step_idx] = "brain"
    /\ last_brain' = BrainInstructions(index, pass_report, last_report,
                                       failing_reasons, expectations)
    /\ calls' = calls + 1
    /\ first_agent' = FirstAgent("brain")
    /\ Raise("AgentError", {})
    /\ UNCHANGED <<component_vars, inputs, plan, expectations, summary, locals,
                   keep_servers_running, preview_url, selection, server_manager,
                   last_vision, built_expectations, browser_opened,
                   stopped_in_finally>>

\* Variant: the counter rises after every pass with failing reasons.
NextStagnation_Always(l_failures, reasons, counter) == counter + 1

\* Lines 683-686: the stagnation counter after a pass with failing reasons.
NextStagnation(l_failures, reasons, counter) ==
    IF l_failures = SomeList(reasons) THEN counter + 1 ELSE 0

\* Variant: a third identical pass is needed to stall.
Stalled_Late(counter) == counter >= 2

\* Line 687.
Stalled(counter) == counter >= 1

\* Variant: the `if success: break` of lines 679-680 is missing.
PassEndBranch_NoSuccessBreak(succ, reasons, counter) ==
    IF reasons # <<>> /\ counter >= 1 THEN "stalled" ELSE "continue"

\* Lines 679-692: how the pass loop goes on after a pass.
PassEndBranch(succ, reasons, counter) ==
    IF succ THEN "success"
    ELSE IF reasons # <<>> /\ Stalled(counter) THEN "stalled"
    ELSE "continue"

\* Lines 669-694: the bookkeeping at the end of a pass.
PassEnd ==
    /\ pc = "pass_end"
    /\ LET recorded ==
             IF ~pass_outcome
             THEN add_pass(summary,
                           PassOutcome(index, failing_reasons = <<>>,
                                       changes_made, failing_reasons,
                                       "issues"))
             ELSE summary
           counter == NextStagnation(last_failures, failing_reasons,
                                     stagnation_counter)
           branch == PassEndBranch(success, failing_reasons, counter)
       IN  /\ pass_outcome' = TRUE
           /\ IF branch = "success"
              THEN /\ summary' = recorded
                   /\ pc' = "after_loop"
                   /\ UNCHANGED <<index, last_failures, last_report,
                                  stagnation_counter>>
              ELSE IF branch = "stalled"
              THEN /\ summary' =
                        [recorded EXCEPT
                            !.status = "stalled",
                            !.final_message =
                                [kind |-> "stalled",
                                 reasons |-> failing_reasons]]
                   /\ stagnation_counter' = counter
                   /\ pc' = "after_loop"
                   /\ UNCHANGED <<index, last_failures, last_report>>
              ELSE /\ summary' = recorded
                   /\ stagnation_counter' =
                        IF failing_reasons # <<>> THEN counter
                        ELSE stagnation_counter
                   /\ last_failures' = SomeList(failing_reasons)
                   /\ last_report' = pass_report
                   /\ index' = index + 1
                   /\ pc' = "pass_start"
    /\ UNCHANGED <<component_vars, inputs, plan, expectations, step_idx, changes_made,
                   pass_report, failing_reasons, success,
                   keep_servers_running, preview_url, selection, server_manager, exit,
                   error, observed, built_expectations, browser_opened,
                   stopped_in_finally>>

\* Variant: the message names no reasons.
_format_max_passes_message_Generic(reasons) ==
    [kind |-> "max_passes", reasons |-> <<>>]

\* _format_max_passes_message: the reasons the message lists.
_format_max_passes_message(reasons) ==
    [kind |-> "max_passes", reasons |-> reasons]

\* Lines 696-700: after the loop (`last_failures or []`).
AfterLoop ==
    /\ pc = "after_loop"
    /\ summary' =
         IF summary.status = "unknown"
         THEN [summary EXCEPT
                  !.status = "max_passes",
                  !.final_message =
                      _format_max_passes_message(last_failures.val)]
         ELSE summary
    /\ pc' = "finally"
    /\ UNCHANGED <<component_vars, inputs, plan, expectations, locals, keep_servers_running,
                   preview_url, selection, server_manager, exit, error, observed,
                   built_expectations, browser_opened, stopped_in_finally>>

\* Lines 701-703: the finally block; then the exception propagates, the
\* pending return completes, or control falls through to line 705.
Finally ==
    /\ pc = "finally"
    /\ IF ~keep_servers_running /\ server_manager.created
       THEN /\ server_manager' = stop_all(server_manager)
            /\ stopped_in_finally' = TRUE
       ELSE UNCHANGED <<server_manager, stopped_in_finally>>
    /\ pc' = IF exit = "raise" THEN "raised"
             ELSE IF exit = "return" THEN "returned"
             ELSE "post_finally"
    /\ UNCHANGED <<component_vars, inputs, plan, expectations, summary, locals,
                   keep_servers_running, preview_url, selection, exit, error, observed,
                   built_expectations, browser_opened>>

\* Lines 705-733: keep-alive (open the browser, wait for Enter or five
\* seconds, stop the services), then return summary.
PostFinally ==
    /\ pc = "post_finally"
    /\ IF keep_servers_running /\ preview_url # "None"
          /\ server_manager.created
       THEN /\ browser_opened' = TRUE
            /\ server_manager' = stop_all(server_manager)
       ELSE UNCHANGED <<browser_opened, server_manager>>
    /\ pc' = "returned"
    /\ UNCHANGED <<component_vars, inputs, plan, expectations, summary, locals,
                   keep_servers_running, preview_url, selection, exit, error, observed,
                   built_expectations, stopped_in_finally>>

Next ==
    \/ Plan
    \/ RequireApiKeys
    \/ StartAll
    \/ BuildExpectations
    \/ PassStart
    \/ VisionStep
    \/ VisionRaises
    \/ BrainStep
    \/ BrainRaises
    \/ PassEnd
    \/ AfterLoop
    \/ Finally
    \/ PostFinally

Spec == Init /\ [][Next]_vars

\* ======================================================= ServerManager alone
\* A ServerManager driven directly: start_all, stop_all, and processes that
\* exit on their own.
MaxCalls == 3

CommandPool ==
    { StartCommand("frontend", 3000, "None"),
      StartCommand("backend", 5000, "None"),
      StartCommand("backend", 3000, "None"),
      StartCommand("aux", NoPort, "None") }

PortPool == {3000, 5000}
Behaviours == {"ready", "exits", "hangs", "no_exe"}
Kinds == {"None", "frontend", "backend"}

\* Stacks of one to NumCommands start commands.
ServerStacks ==
    { [start_commands |-> cmds, frontend_url |-> "None",
       backend_url |-> "None"] :
        cmds \in UNION { [1..n -> CommandPool] : n \in 1..NumCommands } }

\* The state of run_workflow when no run is in progress.
NoRun ==
    /\ config = [max_passes |-> 1, open_browser |-> FALSE, dry_run |-> FALSE]
    /\ detected_intent = [intent |-> "other", topic |-> "feature"]
    /\ env = {}
    /\ goal = {}
    /\ llm = FALSE

ServerInit ==
    /\ stack \in ServerStacks
    /\ ports_in_use \in SUBSET PortPool
    /\ behaviour \in [1..Len(stack.start_commands) -> Behaviours]
    /\ ignores_sigterm \in BOOLEAN
    /\ running = <<>>
    /\ processes = <<>>
    /\ sm_calls = 0
    /\ sm_result = NoResult

InitServer == NoRun /\ RunInit /\ ServerInit /\ PreviewAtRest
              /\ ParseAtRest /\ GatesAtRest /\ OthersAtRest

\* manager.start_all(preferred_kind=...); run_workflow passes None or
\* "frontend".
StartAllCall ==
    /\ sm_calls < MaxCalls
    /\ \E kind \in {"None", "frontend"} :
         LET r == ServerManager_start_all(
                      stack.start_commands, running, processes,
                      ports_in_use \cup OwnPorts(processes), behaviour,
                      ignores_sigterm, kind)
         IN  /\ running' = r.running
             /\ processes' = r.processes
             /\ sm_result' = [op |-> "start_all", error |-> r.error,
                              terminated |-> {}]
    /\ sm_calls' = sm_calls + 1
    /\ UNCHANGED <<run_vars, router_vars, intent_vars, wait_vars,
                   stack, ports_in_use, behaviour, ignores_sigterm,
                   preview_vars, parse_vars, gate_vars>>

\* manager.stop_all()
StopAllCall ==
    /\ sm_calls < MaxCalls
    /\ LET r == ServerManager_stop_all(running, processes, ignores_sigterm)
       IN  /\ running' = r.running
           /\ processes' = r.processes
           /\ sm_result' = [op |-> "stop_all", error |-> NoStartError,
                            terminated |-> r.terminated]
    /\ sm_calls' = sm_calls + 1
    /\ UNCHANGED <<run_vars, router_vars, intent_vars, wait_vars,
                   stack, ports_in_use, behaviour, ignores_sigterm,
                   preview_vars, parse_vars, gate_vars>>

\* A service process exits on its own.
ProcessExits ==
    /\ \E i \in 1..Len(processes) :
         /\ processes[i].state = "alive"
         /\ processes' = [processes EXCEPT ![i].state = "exited",
                                           ![i].listening = FALSE]
    /\ UNCHANGED <<run_vars, router_vars, intent_vars, wait_vars,
                   stack, ports_in_use, behaviour, ignores_sigterm,
                   running, sm_calls, sm_result, preview_vars, parse_vars,
                   gate_vars>>

NextServer ==
    \/ StartAllCall
    \/ StopAllCall
    \/ ProcessExits

SpecServer == InitServer /\ [][NextServer]_vars

\* ================================================ resolve_preview_surface alone
\* Stacks whose commands declare a port or a url, with or without the
\* stack's own frontend url.
PreviewCommandPool ==
    { StartCommand("frontend", 3000, "None"),
      StartCommand("backend", 5000, "None"),
      StartCommand("backend", NoPort, "http://localhost:3000"),
      StartCommand("aux", NoPort, "None") }

PreviewStacks ==
    { [start_commands |-> cmds, frontend_url |-> f, backend_url |-> "None"] :
        cmds \in UNION { [1..n -> PreviewCommandPool] : n \in 1..NumCommands },
        f \in {"None", "http://localhost:5000"} }

PreviewUrls == {"http://localhost:3000", "http://localhost:5000"}

PreviewSampleResponses ==
    SampleResponses \cup { Response("http_error", 500, 0, {}) }

SampleHints ==
    { [selectors |-> {}, keywords |-> {}],
      [selectors |-> {"#contact"}, keywords |-> {"form"}],
      [selectors |-> {}, keywords |-> {"table"}] }

PreviewInit ==
    /\ stack \in PreviewStacks
    /\ preview_responses \in [PreviewUrls -> PreviewSampleResponses]
    /\ preview_kind \in Kinds
    /\ preview_hints \in SampleHints
    /\ preview_selection = NoSelection

InitPreview ==
    /\ NoRun /\ RunInit /\ PreviewInit /\ ParseAtRest /\ GatesAtRest
    /\ ports_in_use = {} /\ behaviour = <<>> /\ ignores_sigterm = FALSE
    /\ running = <<>> /\ processes = <<>> /\ sm_calls = 0
    /\ sm_result = NoResult /\ OthersAtRest

\* manager.resolve_preview_surface(run_id=..., preferred_kind=..., hints=...)
ResolveCall ==
    /\ preview_selection = NoSelection
    /\ preview_selection' =
         resolve_preview_surface(stack, preview_responses, preview_kind,
                                 preview_hints)
    /\ UNCHANGED <<run_vars, router_vars, intent_vars, wait_vars,
                   server_vars, preview_responses, preview_kind,
                   preview_hints, parse_vars, gate_vars>>

NextPreview == ResolveCall

SpecPreview == InitPreview /\ [][NextPreview]_vars

\* ================================================ parse_vision_payload alone
\* The fields of a dict payload, each absent or with one of these values.
Field(present, v) == [present |-> present, v |-> v]

WrongType == [wrong |-> TRUE]

FieldSamples ==
    [mode : { Field(FALSE, "None"), Field(TRUE, "qa"), Field(TRUE, "QA"),
              Field(TRUE, "fast") },
     scores : { Field(FALSE, EmptyDict),
                Field(TRUE, [alignment |-> 950, spacing |-> 940,
                             contrast |-> BadVal]),
                Field(TRUE, WrongType) },
     accessibility : { Field(FALSE, EmptyDict),
                       Field(TRUE, [target |-> "AA"]) },
     interactions : { Field(FALSE, <<>>), Field(TRUE, <<>>),
                      Field(TRUE, <<[id |-> "contact_submit",
                                     ok |-> TRUE]>>) },
     issues : { Field(FALSE, <<>>), Field(TRUE, <<>>) },
     artifacts : { Field(FALSE, EmptyDict), Field(TRUE, EmptyDict) },
     version : { Field(TRUE, "1.0") }]

\* The dict whose keys are the present fields.
AsDict(fields) ==
    [f \in { g \in DOMAIN fields : fields[g].present } |-> fields[f].v]

DictPayloads ==
    { Payload("dict", AsDict(fields), "None", TRUE, "None") :
        fields \in FieldSamples }

FullDict ==
    [version |-> "1.0", mode |-> "qa",
     scores |-> [alignment |-> 950, spacing |-> 940, contrast |-> 920],
     accessibility |-> [target |-> "AA"], interactions |-> <<>>,
     issues |-> <<>>, artifacts |-> EmptyDict]

\* Strings, objects and other values.
OtherPayloads ==
    { Payload("object", FullDict, "None", TRUE, "None"),
      Payload("other", EmptyDict, "None", FALSE, "None"),
      Payload("str", FullDict, "dict", TRUE, "None"),
      Payload("str", EmptyDict, "dict", FALSE, "None"),
      Payload("str", EmptyDict, "list", TRUE, "None"),
      Payload("str", EmptyDict, "list", FALSE, "None"),
      Payload("str", EmptyDict, "number", TRUE, "None"),
      Payload("str", EmptyDict, "number", FALSE, "None"),
      Payload("str", EmptyDict, "string", TRUE, "None"),
      Payload("str", EmptyDict, "bool", TRUE, "None"),
      Payload("str", EmptyDict, "null", FALSE, "None"),
      Payload("str", EmptyDict, "invalid", FALSE, "None"),
      Payload("str", EmptyDict, "invalid", FALSE, "invalid"),
      Payload("str", [invalid |-> "json"], "invalid", FALSE, "dict") }

\* Texts: an object alone, inside other words, followed by a second object
\* or by a stray brace, and texts without any object.
ScoresObject == <<"{", "scores:", "{", "alignment:0.9", "}", "}">>

SampleTexts ==
    { <<>>, <<"noise">>, <<"{", "}">>, ScoresObject,
      <<"noise">> \o ScoresObject \o <<"noise">>,
      ScoresObject \o <<"noise">>,
      ScoresObject \o <<"noise", "{", "}">>,
      ScoresObject \o ScoresObject,
      ScoresObject \o <<"noise", "}">>,
      <<"noise", "{">> \o ScoresObject,
      <<"noise", "{", "noise", "}">>,
      <<"noise", "}", "{">>,
      <<"{", "noise">>,
      <<"noise", "{", "}", "noise">> }

TextPayloads == { StrPayload(text) : text \in SampleTexts }

RawPayloads == DictPayloads \cup OtherPayloads \cup TextPayloads

ParseInit ==
    /\ raw_payload \in RawPayloads
    /\ parse_mode \in VisionModes
    /\ parse_outcome = NotParsed

InitParse == NoRun /\ RunInit /\ ServerAtRest /\ PreviewAtRest
             /\ ParseInit /\ GatesAtRest /\ OthersAtRest

\* parse_vision_payload(raw_payload, url=..., mode=parse_mode)
ParseCall ==
    /\ ~parse_outcome.called
    /\ parse_outcome' = ParseVisionPayload(raw_payload, parse_mode)
    /\ UNCHANGED <<run_vars, router_vars, intent_vars, wait_vars,
                   server_vars, preview_vars, raw_payload,
                   parse_mode, gate_vars>>

NextParse == ParseCall

SpecParse == InitParse /\ [][NextParse]_vars

\* ===================================================== gate predicates alone
\* Expected interactions: none, one form_submit with or without each
\* expectation flag, one of another type, and two form_submits.
FormSubmit(id, flags) ==
    [k \in {"id", "type"} \cup flags |->
        IF k = "id" THEN id ELSE IF k = "type" THEN "form_submit" ELSE TRUE]

SampleInteractions ==
    { <<>> }
    \cup { <<FormSubmit("contact_submit", flags)>> :
             flags \in SUBSET {"expect_http_2xx", "expect_success_banner"} }
    \cup { <<[id |-> "contact_submit", type |-> "click"]>>,
           <<FormSubmit("contact_submit", {"expect_http_2xx"}),
             FormSubmit("login_form", {"expect_success_banner"})>> }

\* The required minimum of the three count capabilities: absent, 0 or 2.
SampleCapabilities ==
    { EmptyDict,
      [kpi_tiles |-> [min |-> 0], charts |-> [required |-> FALSE],
       tables |-> EmptyDict],
      [kpi_tiles |-> [min |-> 2], charts |-> [min |-> 2],
       tables |-> [min |-> 2]] }

GateExpectations ==
    { [capabilities |-> c, interactions |-> i] :
        c \in SampleCapabilities, i \in SampleInteractions }

\* What was observed of one interaction: each key absent or with a value.
ObservedSamples ==
    [attempted : { Field(FALSE, FALSE), Field(TRUE, FALSE),
                   Field(TRUE, TRUE) },
     http_status : { Field(FALSE, NoneVal), Field(TRUE, NoneVal),
                     Field(TRUE, 200), Field(TRUE, 299), Field(TRUE, 300),
                     Field(TRUE, 199) },
     success_banner : { Field(FALSE, FALSE), Field(TRUE, TRUE) },
     error_banner : { Field(FALSE, FALSE), Field(TRUE, TRUE) }]

ObservedCounts == { EmptyDict } \cup
    { [kpi_tiles |-> n, charts |-> n, tables |-> n] : n \in 0..3 }

\* Observations: the first interaction observed as sampled, the second one
\* (when expected) attempted without anything else.
GateObservations ==
    { [elements |-> e,
       interactions |-> [id \in {"contact_submit", "login_form"} |->
                            IF id = "contact_submit" THEN AsDict(o)
                            ELSE [attempted |-> TRUE]]] :
        e \in ObservedCounts, o \in ObservedSamples }

\* Thresholds: none named, some named, all named.
SampleThresholds ==
    { EmptyDict, [alignment_score |-> 950], DefaultThresholds,
      LlmThresholds }

ScoreExpectations ==
    { [capabilities |-> EmptyDict, interactions |-> <<>>] }
    \cup { [capabilities |-> EmptyDict, interactions |-> <<>>,
            thresholds |-> t] : t \in SampleThresholds }

\* Scores on, just below and away from each threshold in use.
SampleScoreValues ==
    {0, 699, 700, 749, 750, 799, 800, 899, 900, 949, 950, 1000}

SampleScores ==
    { EmptyDict, [alignment |-> 900] }
    \cup { [alignment |-> v, spacing |-> v, contrast |-> v] :
             v \in SampleScoreValues }

ScoreObservations ==
    { [elements |-> EmptyDict, interactions |-> EmptyDict] }
    \cup { [elements |-> EmptyDict, interactions |-> EmptyDict,
            vision_scores |-> v] : v \in SampleScores }

GatesInit ==
    /\ \/ /\ gate_expectations \in GateExpectations
          /\ gate_observations \in GateObservations
       \/ /\ gate_expectations \in ScoreExpectations
          /\ gate_observations \in ScoreObservations
    /\ gate_outcome = NoGateOutcome

InitGates == NoRun /\ RunInit /\ ServerAtRest /\ PreviewAtRest
             /\ ParseAtRest /\ GatesInit /\ OthersAtRest

GateOutcome(gate, result) ==
    [gate |-> gate, passed |-> result.passed, reason |-> result.reason]

\* registry._form_submit_ok(expectations, observations)
FormSubmitCall ==
    /\ gate_outcome = NoGateOutcome
    /\ gate_outcome' =
         GateOutcome("form_submit_ok",
                     _form_submit_ok(gate_expectations, gate_observations))
    /\ UNCHANGED <<run_vars, router_vars, intent_vars, wait_vars,
                   server_vars, preview_vars, parse_vars,
                   gate_expectations, gate_observations>>

\* registry._kpi_min, _charts_min, _tables_min (expectations, observations)
CapabilityMinCall ==
    /\ gate_outcome = NoGateOutcome
    /\ \E name \in {"kpi_tiles", "charts", "tables"} :
         gate_outcome' =
             GateOutcome(name,
                         IF name = "kpi_tiles"
                         THEN _kpi_min(gate_expectations, gate_observations)
                         ELSE IF name = "charts"
                         THEN _charts_min(gate_expectations,
                                          gate_observations)
                         ELSE _tables_min(gate_expectations,
                                          gate_observations))
    /\ UNCHANGED <<run_vars, router_vars, intent_vars, wait_vars,
                   server_vars, preview_vars, parse_vars,
                   gate_expectations, gate_observations>>

\* registry._alignment_score, _spacing_score, _contrast_score
ScoreGateCall ==
    /\ gate_outcome = NoGateOutcome
    /\ \E gate \in {"alignment_score", "spacing_score", "contrast_score"} :
         gate_outcome' =
             GateOutcome(gate,
                         IF gate = "alignment_score"
                         THEN _alignment_score(gate_expectations,
                                               gate_observations)
                         ELSE IF gate = "spacing_score"
                         THEN _spacing_score(gate_expectations,
                                             gate_observations)
                         ELSE _contrast_score(gate_expectations,
                                              gate_observations))
    /\ UNCHANGED <<run_vars, router_vars, intent_vars, wait_vars,
                   server_vars, preview_vars, parse_vars,
                   gate_expectations, gate_observations>>

NextGates ==
    \/ FormSubmitCall
    \/ CapabilityMinCall
    \/ ScoreGateCall

SpecGates == InitGates /\ [][NextGates]_vars


\* ==================================================== build_agent_plan alone
\* Values of IntentResult.intent and IntentResult.topic: the ones the
\* classifier produces and others a caller may pass.
RouteIntents == {"create", "refine", "other", "fix", ""}
RouteTopics == {"ui_ux", "bug", "feature", "infra", "data_pipeline", "other"}

RouterInit ==
    /\ route_intent \in [intent : RouteIntents, topic : RouteTopics]
    /\ route_flag \in BOOLEAN
    /\ route_plan = NoPlan

InitRouter == NoRun /\ RunInit /\ ServerAtRest /\ PreviewAtRest
              /\ ParseAtRest /\ GatesAtRest /\ RouterInit /\ IntentAtRest
              /\ WaitAtRest

\* build_agent_plan(route_intent, include_ui_validation=route_flag)
BuildPlanCall ==
    /\ ~route_plan.called
    /\ route_plan' =
         [called |-> TRUE,
          steps |-> build_agent_plan(route_intent.intent,
                                     route_intent.topic, route_flag)]
    /\ UNCHANGED <<run_vars, server_vars, preview_vars, parse_vars,
                   gate_vars, route_intent, route_flag, intent_vars,
                   wait_vars>>

NextRouter == BuildPlanCall

SpecRouter == InitRouter /\ [][NextRouter]_vars

\* ===================================================== classify_intent alone
\* Goals are made of two phrases, with and without keywords of the classifier.
GoalPhrases ==
    { <<>>,
      <<"t", "o", "d", "o", " ", "a", "p", "p">>,
      <<"P", "h", "o", "t", "o", " ", "g", "a", "l", "l", "e", "r", "y">>,
      <<"B", "u", "i", "l", "d">>,
      <<"f", "i", "x", " ", "l", "o", "g", "i", "n">>,
      <<"i", "m", "p", "r", "o", "v", "e">>,
      <<"s", "p", "a", "c", "i", "n", "g">>,
      <<"a", "d", "d", " ", "s", "e", "a", "r", "c", "h">>,
      <<"d", "e", "p", "l", "o", "y">>,
      <<"d", "a", "t", "a">> }

SampleGoals == { p \o <<" ">> \o q : p \in GoalPhrases, q \in GoalPhrases }

IntentInit ==
    /\ ci_goal \in SampleGoals
    /\ ci_has_code \in BOOLEAN
    /\ ci_result = NoIntent

InitIntent == NoRun /\ RunInit /\ ServerAtRest /\ PreviewAtRest
              /\ ParseAtRest /\ GatesAtRest /\ RouterAtRest /\ IntentInit
              /\ WaitAtRest

\* classify_intent(ci_goal, stack) with stack.has_code = ci_has_code
ClassifyCall ==
    /\ ~ci_result.called
    /\ ci_result' = classify_intent(ci_goal, ci_has_code)
    /\ UNCHANGED <<run_vars, server_vars, preview_vars, parse_vars,
                   gate_vars, router_vars, ci_goal, ci_has_code, wait_vars>>

NextIntent == ClassifyCall

SpecIntent == InitIntent /\ [][NextIntent]_vars

\* ====================================================== _wait_for_port alone
\* One wait, with the process and the port changing while it polls.  The
\* loop sleeps one second per round; wait_elapsed counts the rounds.
MaxTimeout == 2

SampleStderr == { <<>>, <<"boom">>, <<"warning: deprecated", "Error: boom">> }
SampleStdout == { <<>>, <<"listening">>, <<"starting", "ready">> }

WaitInit ==
    /\ wait_args \in [timeout : 0..MaxTimeout,
                      description : {"Test server", "Service", "None"},
                      port : {54321}]
    /\ wait_proc \in { NoProcess }
                     \cup { Process(e, o, s) : e \in SampleStderr,
                                               o \in SampleStdout,
                                               s \in BOOLEAN }
    /\ wait_port_open \in BOOLEAN
    /\ wait_elapsed = 0
    /\ wait_result = NoWaitResult

InitWait == NoRun /\ RunInit /\ ServerAtRest /\ PreviewAtRest
            /\ ParseAtRest /\ GatesAtRest /\ RouterAtRest /\ IntentAtRest
            /\ WaitInit

Waiting == wait_result = NoWaitResult

\* Lines 362-377: one round of the loop.
WaitPoll ==
    /\ Waiting
    /\ wait_elapsed < wait_args.timeout
    /\ IF wait_proc.given /\ ~wait_proc.alive
       THEN /\ wait_result' =
                 WaitResult("RuntimeError",
                            WaitMessage(wait_args, wait_proc, " failed: ",
                                        " exited unexpectedly."))
            /\ UNCHANGED wait_elapsed
       ELSE IF wait_port_open
       THEN /\ wait_result' = WaitResult("returned", <<>>)
            /\ UNCHANGED wait_elapsed
       ELSE /\ wait_elapsed' = wait_elapsed + 1
            /\ UNCHANGED wait_result
    /\ UNCHANGED <<run_vars, server_vars, preview_vars, parse_vars,
                   gate_vars, router_vars, intent_vars, wait_args,
                   wait_proc, wait_port_open>>

\* Lines 378-401: the loop ran out of time.
WaitExpire ==
    /\ Waiting
    /\ wait_elapsed >= wait_args.timeout
    /\ IF ~wait_proc.given
       THEN /\ wait_result' =
                 WaitResult("TimeoutError",
                            <<WaitSubject(wait_args),
                              " did not become ready in ",
                              ToString(wait_args.timeout), " seconds">>)
            /\ UNCHANGED wait_proc
       ELSE IF ~wait_proc.alive
       THEN /\ wait_result' =
                 WaitResult("RuntimeError",
                            WaitMessage(wait_args, wait_proc,
                                        " exited early: ",
                                        " exited before becoming ready."))
            /\ UNCHANGED wait_proc
       ELSE /\ wait_proc' = TerminateWaited(wait_proc)
            /\ wait_result' =
                 WaitResult("TimeoutError",
                            WaitMessage(wait_args, wait_proc,
                                        " timed out. Last output: ",
                                        " timed out before responding."))
    /\ UNCHANGED <<run_vars, server_vars, preview_vars, parse_vars,
                   gate_vars, router_vars, intent_vars, wait_args,
                   wait_port_open, wait_elapsed>>

\* The owning process exits on its own.
WaitedProcessExits ==
    /\ Waiting
    /\ wait_proc.given /\ wait_proc.alive
    /\ wait_proc' = [wait_proc EXCEPT !.alive = FALSE]
    /\ UNCHANGED <<run_vars, server_vars, preview_vars, parse_vars,
                   gate_vars, router_vars, intent_vars, wait_args,
                   wait_port_open, wait_elapsed, wait_result>>

\* The service starts to accept connections on the port.
PortOpens ==
    /\ Waiting
    /\ ~wait_port_open
    /\ wait_proc.given => wait_proc.alive
    /\ wait_port_open' = TRUE
    /\ UNCHANGED <<run_vars, server_vars, preview_vars, parse_vars,
                   gate_vars, router_vars, intent_vars, wait_args,
                   wait_proc, wait_elapsed, wait_result>>

NextWait ==
    \/ WaitPoll
    \/ WaitExpire
    \/ WaitedProcessExits
    \/ PortOpens

SpecWait == InitWait /\ [][NextWait]_vars

\* ================================================================== claims
Passes == summary.passes
LastPass == Passes[Len(Passes)]
InLoop == pc \in {"pass_start", "step", "pass_end", "after_loop"}
Left == pc \in {"returned", "raised"}
TerminalStatuses == {"dry_run", "error", "success", "stalled", "max_passes"}

\* C1: status is 'success' only if the most recent vision step's gate
\* evaluation returned no failing reasons; the last recorded PassOutcome then
\* has vision_passed = true and failing_reasons = [].
C1_SuccessOnlyWhenGatesPass ==
    summary.status = "success" =>
        /\ last_vision.id > 0
        /\ last_vision.reasons = <<>>
        /\ Len(Passes) > 0
        /\ LastPass.vision_passed
        /\ LastPass.failing_reasons = <<>>

\* A run that failed its first pass and succeeded in its second has returned.
C1_Witness ==
    /\ pc = "returned"
    /\ summary.status = "success"
    /\ Len(Passes) = 2
    /\ Passes[1].failing_reasons # <<>>

IsPrefix(a, b) == Len(a) <= Len(b) /\ \A i \in 1..Len(a) : a[i] = b[i]

\* C2: summary.passes changes only by appending one outcome, never holds
\* more than max_passes outcomes; a returned summary has a terminal status
\* (never 'unknown'); a terminal status, once set, is not overwritten.
C2_PassesAppendOnlyStatusTerminal ==
    /\ [](Len(Passes) <= config.max_passes)
    /\ [](pc = "returned" => summary.status \in TerminalStatuses)
    /\ [][/\ IsPrefix(Passes, summary.passes')
          /\ Len(summary.passes') <= Len(Passes) + 1
          /\ (summary.status # "unknown"
                => summary.status' = summary.status)]_vars

\* A run that used every pass has returned.
C2_Witness ==
    /\ pc = "returned"
    /\ summary.status = "max_passes"
    /\ config.max_passes = MaxPasses
    /\ Len(Passes) = MaxPasses

\* C3 as stated: whenever a recorded pass has the same failing-reasons list
\* as the pass before it, the run is stalled right after that pass and no
\* further pass starts.
C3_StallOnAnyRepeat ==
    \A i \in 2..Len(Passes) :
        Passes[i].failing_reasons = Passes[i - 1].failing_reasons
        => /\ summary.status = "stalled"
           /\ Len(Passes) = i
           /\ index = i
           /\ pc \notin {"pass_start", "step", "pass_end"}

\* C3 amended: whenever a recorded pass has the same NON-EMPTY
\* failing-reasons list as the pass before it, the run is stalled right after
\* that pass and no further pass starts (so reasons a, a, a stop after the
\* second pass).
C3_StallOnRepeatedFailures ==
    \A i \in 2..Len(Passes) :
        /\ Passes[i].failing_reasons = Passes[i - 1].failing_reasons
        /\ Passes[i].failing_reasons # <<>>
        => /\ summary.status = "stalled"
           /\ Len(Passes) = i
           /\ index = i
           /\ pc \notin {"pass_start", "step", "pass_end"}

\* A run of up to three passes stopped after two passes with equal reasons.
C3_Witness ==
    /\ pc = "returned"
    /\ config.max_passes = MaxPasses
    /\ summary.status = "stalled"
    /\ Len(Passes) = 2
    /\ Passes[1].failing_reasons = Passes[2].failing_reasons
    /\ Passes[2].failing_reasons # <<>>

\* C4: at every brain step, the brain receives the generation instructions
\* if no vision step has run earlier in the run, and otherwise fix
\* instructions built from the most recent vision step's observation and
\* failing reasons (also when that vision step ran in an earlier pass).
C4_BrainGetsLatestObservation ==
    [][last_brain' # last_brain =>
          IF last_vision.id = 0
          THEN last_brain'.kind = "generation"
          ELSE /\ last_brain'.kind = "fix"
               /\ last_brain'.report = last_vision.id
               /\ last_brain'.reasons = last_vision.reasons]_vars

\* C5: on every exit of run_workflow after a ServerManager was created and
\* start_all ran, no tracked service process is left running.
C5_NoServiceOutlivesTheCall ==
    Left /\ server_manager.created => server_manager.running = 0

\* C6: the keep-alive branch (browser opened, stop after the wait) is
\* entered only when keep-alive was requested and the run ended 'success';
\* a run that ends stalled, max_passes or error stops the services in the
\* finally block and opens no browser.
C6_KeepAliveOnlyOnSuccess ==
    /\ browser_opened => config.open_browser /\ summary.status = "success"
    /\ (pc = "returned" /\ server_manager.created
        /\ summary.status \in {"stalled", "max_passes", "error"})
       => stopped_in_finally /\ ~browser_opened

\* C7: from build_expectations on, the expectations object keeps the content
\* it was built with, at every run_vision call and every gate evaluation.
C7_ExpectationsNeverChange ==
    InLoop => expectations = built_expectations

\* C8: once a vision step's gate evaluation has passed, status is 'success',
\* the pass has exactly one PassOutcome (vision_passed, no reasons), and no
\* brain or vision call and no further PassOutcome follows.
C8_SuccessEndsTheRun ==
    /\ [](last_vision.id > 0 /\ last_vision.reasons = <<>>
          => /\ summary.status = "success"
             /\ Len(Passes) = index
             /\ \A i \in 1..Len(Passes) : Passes[i].index = i
             /\ LastPass.vision_passed
             /\ LastPass.failing_reasons = <<>>)
    /\ [][summary.status = "success"
          => /\ calls' = calls
             /\ summary.passes' = Passes
             /\ summary.status' = "success"]_vars

\* Success in the first vision step of a vision-brain-vision plan: the run
\* returned after one agent call.
C8_Witness ==
    /\ pc = "returned"
    /\ summary.status = "success"
    /\ Len(plan) = 3
    /\ calls = 1
    /\ Len(Passes) = 1

\* C9: a dry run returns 'dry_run' with no pass recorded, no ServerManager
\* created, no process spawned, no agent called, the pass loop not entered.
C9_DryRunTouchesNothing ==
    config.dry_run =>
        /\ pc \in {"plan", "finally", "returned"}
        /\ ~server_manager.created
        /\ server_manager.running = 0
        /\ calls = 0
        /\ Passes = <<>>
        /\ index = 0
        /\ (pc \in {"finally", "returned"} => summary.status = "dry_run")

C9_Witness ==
    /\ pc = "returned"
    /\ config.dry_run
    /\ summary.status = "dry_run"

\* The credential variables of the plan's agents that are not set.
UnsetCredentials ==
    { k \in EnvKeys :
        /\ k \notin env
        /\ \E i \in 1..Len(plan) : KeyOf(plan[i]) = k }

\* C10: in a non-dry run with a missing credential for an agent of the plan,
\* one RuntimeError naming every missing variable is raised before a
\* ServerManager exists, a process is spawned or an agent is called; no pass
\* is recorded.
C10_MissingCredentialsFailFast ==
    (~config.dry_run /\ pc # "plan" /\ UnsetCredentials # {}) =>
        /\ pc \in {"require_keys", "finally", "raised"}
        /\ ~server_manager.created
        /\ server_manager.running = 0
        /\ calls = 0
        /\ Passes = <<>>
        /\ (pc \in {"finally", "raised"} =>
               /\ exit = "raise"
               /\ error = [type |-> "RuntimeError",
                           names |-> UnsetCredentials])

\* Both credentials of a two-agent plan are missing and the error left.
C10_Witness ==
    /\ pc = "raised"
    /\ ~config.dry_run
    /\ Cardinality(UnsetCredentials) = 2
    /\ error.names = EnvKeys

\* C11: if preview resolution yields a blank surface or no reachable surface,
\* run_workflow returns status 'error' with a final message, the pass loop
\* never starts (no PassOutcome, no agent call) and the started services are
\* stopped.
C11_NoSurfaceIsTerminal ==
    (selection # NoSelection
     /\ (selection.probe.is_blank \/ selection.url = "None")) =>
        /\ summary.status = "error"
        /\ summary.final_message # NoMessage
        /\ Passes = <<>>
        /\ calls = 0
        /\ index = 0
        /\ pc \in {"finally", "returned"}
        /\ (pc = "returned" =>
               /\ server_manager.running = 0
               /\ stopped_in_finally
               /\ ~browser_opened)

\* A run whose only healthy surface was blank has returned, services stopped.
C11_Witness ==
    /\ pc = "returned"
    /\ selection.probe.is_blank
    /\ selection.fallback_used
    /\ config.open_browser
    /\ server_manager.stop_calls = 1

\* C12: a run whose passes all completed without a passing gate evaluation
\* and without a stagnation stop ends with status 'max_passes' after exactly
\* max_passes recorded passes, and its final message lists the failing
\* reasons of the last completed pass.
C12_ExhaustionReportsLastFailures ==
    /\ (pc \in {"finally", "post_finally", "returned"} /\ exit = "none"
        /\ summary.status \notin {"success", "stalled"})
       => summary.status = "max_passes"
    /\ summary.status = "max_passes" =>
          /\ Len(Passes) = config.max_passes
          /\ \A i \in 1..Len(Passes) : Passes[i].index = i
          /\ last_vision.id > 0 => last_vision.reasons # <<>>
          /\ summary.final_message =
                [kind |-> "max_passes",
                 reasons |-> LastPass.failing_reasons]

\* A run of MaxPasses passes ended max_passes with reasons in its message.
C12_Witness ==
    /\ pc = "returned"
    /\ summary.status = "max_passes"
    /\ config.max_passes = MaxPasses
    /\ Len(Passes) = MaxPasses
    /\ summary.final_message.reasons # <<>>
    /\ summary.final_message.reasons = Passes[MaxPasses].failing_reasons

\* ------------------------------------------------- claims on ServerManager
StartAllStep == sm_calls' = sm_calls + 1 /\ sm_result'.op = "start_all"
StopAllStep == sm_calls' = sm_calls + 1 /\ sm_result'.op = "stop_all"
Tracked == { running[k] : k \in 1..Len(running) }
PortsNamed(ports) == { ports[k] : k \in 1..Len(ports) }

\* The declared ports that accept connections when start_all is called.
ConflictingPorts ==
    { stack.start_commands[i].port :
        i \in { j \in 1..Len(stack.start_commands) :
                  /\ stack.start_commands[j].port # NoPort
                  /\ stack.start_commands[j].port \in
                        ports_in_use \cup OwnPorts(processes) } }

\* C13: if a declared port already accepts connections when start_all is
\* called, start_all raises one error that names every conflicting port and
\* a remediation command for each, and spawns no process (the tracked list
\* is left as it was), also when two commands share the bound port.
C13_PortConflictsFailBeforeSpawn ==
    [][(StartAllStep /\ ConflictingPorts # {}) =>
          /\ sm_result'.error.type = "RuntimeError"
          /\ PortsNamed(sm_result'.error.conflicts) = ConflictingPorts
          /\ PortsNamed(sm_result'.error.remedies) = ConflictingPorts
          /\ processes' = processes
          /\ running' = running]_vars

\* Two commands share a port that another program holds: the first call
\* failed with both entries and nothing was spawned.
C13_Witness ==
    /\ sm_calls = 1
    /\ sm_result.op = "start_all"
    /\ Len(stack.start_commands) = 2
    /\ stack.start_commands[1].port = stack.start_commands[2].port
    /\ stack.start_commands[1].port \in ports_in_use
    /\ Len(sm_result.error.conflicts) = 2
    /\ Len(sm_result.error.remedies) = 2
    /\ running = <<>>
    /\ processes = <<>>

\* C14: when start_all fails after it spawned at least one process, every
\* process it spawned has been terminated and the tracked list is empty
\* when the error reaches the caller.
C14_FailedStartLeavesNothing ==
    [][(StartAllStep /\ sm_result'.error.type # "None"
        /\ Len(processes') > Len(processes)) =>
          /\ running' = <<>>
          /\ \A i \in (Len(processes) + 1)..Len(processes') :
                processes'[i].state # "alive"]_vars

\* C15: stop_all terminates every tracked process that is still alive,
\* kills one that does not exit within the grace window, touches no other
\* process, raises nothing and leaves the tracked list empty; called with
\* nothing tracked (a second call) it signals no process.
C15_StopAllTerminatesAndClears ==
    [][StopAllStep =>
          /\ running' = <<>>
          /\ sm_result'.error = NoStartError
          /\ Len(processes') = Len(processes)
          /\ \A i \in 1..Len(processes) :
                IF i \in Tracked /\ processes[i].state = "alive"
                THEN /\ processes'[i].state =
                           (IF ignores_sigterm THEN "killed"
                            ELSE "terminated")
                     /\ i \in sm_result'.terminated
                ELSE /\ processes'[i] = processes[i]
                     /\ i \notin sm_result'.terminated
          /\ (running = <<>> =>
                 /\ processes' = processes
                 /\ sm_result'.terminated = {})]_vars

\* start_all of two services, stop_all that had to kill both, and a second
\* stop_all that signalled nothing.
C15_Witness ==
    /\ sm_calls = 3
    /\ sm_result.op = "stop_all"
    /\ sm_result.terminated = {}
    /\ Len(processes) = 2
    /\ \A i \in 1..Len(processes) : processes[i].state = "killed"
    /\ running = <<>>

\* ------------------------------------- claims on resolve_preview_surface
FirstOf(S) == CHOOSE i \in S : \A j \in S : i <= j

\* C16: resolve_preview_surface returns the first candidate of the highest
\* non-empty class among (a) healthy non-blank of the preferred kind that
\* matches the hints, (b) healthy non-blank matching the hints, (c) healthy
\* non-blank, (d) healthy blank, with fallback_used and artifacts, and
\* otherwise (e) no url, with the first probe error in the message; a
\* healthy non-blank candidate is never passed over for a blank one.
C16_PreviewPreferenceOrder ==
    preview_selection # NoSelection =>
        LET P == Probes(stack, preview_responses)
            sel == preview_selection
            c == { i \in 1..Len(P) : IsHealthy(P[i]) /\ ~P[i].is_blank }
            b == { i \in c : matches_hints(P[i], preview_hints) }
            a == { i \in b : preview_kind # "None"
                             /\ P[i].kind = preview_kind }
            d == { i \in 1..Len(P) : IsHealthy(P[i]) /\ P[i].is_blank }
            e == { i \in 1..Len(P) : P[i].error # "None" }
            Chosen(i) == /\ sel.url = P[i].url
                         /\ sel.probe = P[i]
                         /\ ~sel.fallback_used
                         /\ sel.artifacts = {}
        IN  /\ IF a # {} THEN Chosen(FirstOf(a))
               ELSE IF b # {} THEN Chosen(FirstOf(b))
               ELSE IF c # {} THEN Chosen(FirstOf(c))
               ELSE IF d # {}
               THEN /\ sel.url = P[FirstOf(d)].url
                    /\ sel.probe = P[FirstOf(d)]
                    /\ sel.fallback_used
                    /\ sel.artifacts # {}
               ELSE /\ sel.url = "None"
                    /\ sel.probe = NoProbe
                    /\ ~sel.fallback_used
                    /\ (e # {} =>
                           /\ sel.message.url = P[FirstOf(e)].url
                           /\ sel.message.error = P[FirstOf(e)].error)
            /\ (c # {} => ~sel.probe.is_blank)

\* The first candidate is healthy, blank and of the preferred kind; the
\* second, non-blank one was selected.
C16_Witness ==
    /\ preview_selection # NoSelection
    /\ LET P == Probes(stack, preview_responses)
       IN  /\ Len(P) = 2
           /\ IsHealthy(P[1]) /\ P[1].is_blank
           /\ P[1].kind = preview_kind
           /\ preview_selection.url = P[2].url
           /\ ~preview_selection.probe.is_blank

\* ---------------------------------------- claims on parse_vision_payload
\* C17: parse_vision_payload raises for no raw payload; it always returns a
\* VisionResult and a warnings list.
C17_ParseNeverRaises ==
    parse_outcome.called => parse_outcome.raised = "None"

\* The fields of a dict payload that are missing or wrong-typed and so
\* replaced by null or a default.
SubstitutedFields(data) ==
    { f \in {"scores", "accessibility", "interactions", "issues",
             "artifacts", "mode"} : f \notin DOMAIN data }
    \cup (IF "scores" \in DOMAIN data /\ data["scores"] = WrongType
          THEN {"scores"} ELSE {})
    \cup (IF "mode" \in DOMAIN data /\ data["mode"] \notin {"qa", "QA"}
          THEN {"mode"} ELSE {})

\* C18: for a dict payload the warnings list holds one warning for each
\* field that was missing or wrong-typed and replaced; it is empty when
\* nothing was replaced.
C18_WarningPerSubstitution ==
    (parse_outcome.called /\ raw_payload.type = "dict") =>
        Len(parse_outcome.warnings) =
            Cardinality(SubstitutedFields(raw_payload.data))

\* ------------------------------------------- claims on the gate predicates
\* The failures that apply to one expected form_submit interaction.
ApplicableFailures(interaction, actual) ==
    LET status == Get(actual, "http_status", NoneVal)
    IN  IF ~Get(actual, "attempted", FALSE) THEN {"not attempted"}
        ELSE (IF ~Get(interaction, "expect_http_2xx", FALSE) THEN {}
              ELSE IF status = NoneVal THEN {"http_status not captured"}
              ELSE IF status < 200 \/ status >= 300
              THEN {"http_status not 2xx"} ELSE {})
             \cup (IF Get(interaction, "expect_success_banner", FALSE)
                      /\ ~Get(actual, "success_banner", FALSE)
                   THEN {"success_banner not shown"} ELSE {})
             \cup (IF Get(actual, "error_banner", FALSE)
                   THEN {"error_banner shown"} ELSE {})

\* C19: the interaction gate passes exactly when no failure applies to any
\* expected form_submit interaction, and its reason lists, under the
\* interaction's id, every failure that applies to that interaction.
C19_AllInteractionFailuresReported ==
    gate_outcome.gate = "form_submit_ok" =>
        LET expected == Get(gate_expectations, "interactions", <<>>)
            actuals == Get(gate_observations, "interactions", EmptyDict)
            forms == { i \in 1..Len(expected) :
                         expected[i].type = "form_submit" }
            parts == IF gate_outcome.reason = <<>> THEN <<>>
                     ELSE gate_outcome.reason[1].parts
            Reported(id) == { parts[k].what :
                                k \in { n \in 1..Len(parts) :
                                          parts[n].id = id } }
            Applies(i) == ApplicableFailures(
                              expected[i],
                              Get(actuals, expected[i].id, EmptyDict))
        IN  /\ gate_outcome.passed <=> \A i \in forms : Applies(i) = {}
            /\ \A i \in forms : Reported(expected[i].id) = Applies(i)

\* C20: a capability-minimum gate passes if and only if the required
\* minimum is 0 or absent or the observed count reaches it; otherwise it
\* fails with a reason that names the capability, the required and the
\* observed count.  A capability that is not requested passes always.
C20_CapabilityMinimum ==
    gate_outcome.gate \in {"kpi_tiles", "charts", "tables"} =>
        LET name == gate_outcome.gate
            cfg == Get(Get(gate_expectations, "capabilities", EmptyDict),
                       name, EmptyDict)
            required == Get(cfg, "min", 0)
            count == Get(Get(gate_observations, "elements", EmptyDict),
                         name, 0)
        IN  /\ gate_outcome.passed <=> (required = 0 \/ count >= required)
            /\ gate_outcome.passed => gate_outcome.reason = <<>>
            /\ ~gate_outcome.passed =>
                  gate_outcome.reason = <<Reason(name, required, count, <<>>)>>

\* Two charts are required and exactly two were observed: the gate passed.
C20_Witness ==
    /\ gate_outcome.gate = "charts"
    /\ gate_outcome.passed
    /\ gate_expectations.capabilities = [kpi_tiles |-> [min |-> 2],
                                         charts |-> [min |-> 2],
                                         tables |-> [min |-> 2]]
    /\ gate_observations.elements.charts = 2

\* The agents of a plan, step by step.
RoutedPlan == route_plan.steps
TrailingVision(wanted) == IF wanted THEN <<"vision">> ELSE <<>>

\* C21: build_agent_plan maps every intent, topic and flag to one plan:
\* create gives [brain], followed by vision iff the flag is set or the topic
\* is ui_ux; refine with topic ui_ux gives [vision, brain, vision] whatever
\* the flag; refine with another topic gives [brain], followed by vision iff
\* the flag is set; any other intent gives [brain].
C21_PlanTable ==
    route_plan.called =>
        /\ (route_intent.intent = "create" =>
              RoutedPlan = <<"brain">>
                  \o TrailingVision(route_flag
                                    \/ route_intent.topic = "ui_ux"))
        /\ (route_intent.intent = "refine"
              /\ route_intent.topic = "ui_ux" =>
              RoutedPlan = <<"vision", "brain", "vision">>)
        /\ (route_intent.intent = "refine"
              /\ route_intent.topic # "ui_ux" =>
              RoutedPlan = <<"brain">> \o TrailingVision(route_flag))
        /\ (route_intent.intent \notin {"create", "refine"} =>
              RoutedPlan = <<"brain">>)

\* A create plan for a ui_ux goal was built with the flag off.
C21_Witness ==
    /\ route_plan.called
    /\ route_intent = [intent |-> "create", topic |-> "ui_ux"]
    /\ ~route_flag
    /\ RoutedPlan = <<"brain", "vision">>

RefineUi == detected_intent.intent = "refine" /\ detected_intent.topic = "ui_ux"
BrainCalled == pc = "step" /\ plan[step_idx] = "brain" /\ calls' = calls + 1

\* C22: once an agent has been called, the first agent called is vision when
\* the intent is refine with topic ui_ux, and brain when the intent is create
\* or refine with another topic; in a refine/ui_ux run every brain call of a
\* pass comes after a vision call of the same pass.
C22_LeadingAgent ==
    /\ [](first_agent # "None" =>
            /\ (RefineUi => first_agent = "vision")
            /\ (detected_intent.intent \in {"create", "refine"} /\ ~RefineUi
                  => first_agent = "brain"))
    /\ [][BrainCalled /\ RefineUi =>
            /\ last_vision.id > 0
            /\ last_vision.pass = index]_vars

\* A refine/ui_ux run whose second pass called the brain has returned.
C22_Witness ==
    /\ pc = "returned"
    /\ RefineUi
    /\ first_agent = "vision"
    /\ last_brain.pass = 2

\* The metric a score gate reads and the threshold it uses when none is named.
MetricOf(gate) ==
    IF gate = "alignment_score" THEN "alignment"
    ELSE IF gate = "spacing_score" THEN "spacing" ELSE "contrast"
StatedDefault(gate) == IF gate = "contrast_score" THEN 750 ELSE 900

\* C23: a score gate compares the observed score (0.0 when absent) with the
\* threshold named in expectations.thresholds (0.90, 0.90, 0.75 when not
\* named): a score equal to the threshold passes, a score below it fails with
\* a reason made of the gate's name, the observed value and the threshold,
\* both printed with two decimals.
C23_ScoreThreshold ==
    gate_outcome.gate \in {"alignment_score", "spacing_score",
                           "contrast_score"} =>
        LET gate == gate_outcome.gate
            threshold == Get(Get(gate_expectations, "thresholds", EmptyDict),
                             gate, StatedDefault(gate))
            score == Get(Get(gate_observations, "vision_scores", EmptyDict),
                         MetricOf(gate), 0)
        IN  /\ gate_outcome.passed <=> score >= threshold
            /\ gate_outcome.passed => gate_outcome.reason = <<>>
            /\ ~gate_outcome.passed =>
                  /\ Len(gate_outcome.reason) = 1
                  /\ gate_outcome.reason[1].gate = gate
                  /\ gate_outcome.reason[1].a = (score + 5) \div 10
                  /\ gate_outcome.reason[1].b = (threshold + 5) \div 10

\* An alignment score of 0.90 met the default threshold: the gate passed.
C23_Witness ==
    /\ gate_outcome.gate = "alignment_score"
    /\ gate_outcome.passed
    /\ "thresholds" \notin DOMAIN gate_expectations
    /\ "vision_scores" \in DOMAIN gate_observations
    /\ gate_observations.vision_scores = [alignment |-> 900]

\* Every keyword the classifier looks for.
ClassifierKeywords ==
    _UI_KEYWORDS \cup _REFINE_KEYWORDS \cup _CREATE_KEYWORDS
    \cup TopicKeywords_bug \cup TopicKeywords_feature
    \cup TopicKeywords_infra \cup TopicKeywords_data_pipeline
    \cup UiPattern \cup BugOverride

NoKeywords(text) == ~_contains_any(text, ClassifierKeywords)

\* C24: classify_intent returns a result for every goal and stack; for a goal
\* that contains none of the classifier's keywords the result has topic
\* 'feature' and confidence 0.6, with intent 'create' when the project has no
\* code and intent 'refine' when it has code.
C24_UnknownGoalDegrades ==
    ci_result.called =>
        /\ ci_result.intent \in {"create", "refine"}
        /\ (NoKeywords(ci_goal) =>
              /\ ci_result.topic = "feature"
              /\ ci_result.confidence = 600
              /\ ci_result.intent =
                    IF ci_has_code THEN "refine" ELSE "create")

\* C25: whenever a brain step sends fix instructions, the observation they are
\* built from is the one of the most recent vision step of the run, of the
\* same pass or of an earlier one; an older observation is never used once a
\* fresher one exists.
C25_FixUsesFreshestObservation ==
    [][BrainCalled /\ last_brain'.kind = "fix" =>
          /\ last_vision.id > 0
          /\ last_brain'.report = last_vision.id]_vars

\* A brain step of the second pass sent fix instructions built from the
\* observation of the first pass.
C25_Witness ==
    /\ last_brain.kind = "fix"
    /\ last_brain.pass = 2
    /\ last_vision.pass = 1
    /\ last_brain.report = last_vision.id

\* What a payload reports, read the way the gates would read it.
ReportedCount(payload, name) ==
    Get(Get(payload, "elements", EmptyDict), name, 0)

ReportsCapabilities(payload, exp) ==
    /\ \A name \in {"kpi_tiles", "charts", "tables"} :
          ReportedCount(payload, name)
              >= Get(_get_capability_config(exp, name), "min", 0)
    /\ (Get(_get_capability_config(exp, "filters"), "required", FALSE)
          => ReportedCount(payload, "filters") > 0)

ReportsInteraction(payload, interaction) ==
    LET entries == Get(payload, "interactions", <<>>)
    IN  \E k \in 1..Len(entries) :
            /\ Get(entries[k], "id", "None") = interaction.id
            /\ Get(entries[k], "attempted", FALSE)
            /\ (Get(interaction, "expect_http_2xx", FALSE) =>
                  /\ Get(entries[k], "http_status", NoneVal) >= 200
                  /\ Get(entries[k], "http_status", NoneVal) < 300)
            /\ (Get(interaction, "expect_success_banner", FALSE) =>
                  Get(entries[k], "success_banner", FALSE))
            /\ ~Get(entries[k], "error_banner", FALSE)

ReportsInteractions(payload, exp) ==
    LET expected == Get(exp, "interactions", <<>>)
    IN  \A i \in 1..Len(expected) :
            expected[i].type = "form_submit"
                => ReportsInteraction(payload, expected[i])

ReportsScores(payload, exp) ==
    LET scores == Get(payload, "scores", EmptyDict)
        thresholds == Get(exp, "thresholds", DefaultThresholds)
    IN  /\ Get(scores, "alignment", NoneVal)
              >= Get(thresholds, "alignment_score", 900)
        /\ Get(scores, "spacing", NoneVal)
              >= Get(thresholds, "spacing_score", 900)
        /\ Get(scores, "contrast", NoneVal)
              >= Get(thresholds, "contrast_score", 750)

RequestsSomething(exp) ==
    \/ \E name \in {"kpi_tiles", "charts", "tables"} :
          Get(_get_capability_config(exp, name), "min", 0) > 0
    \/ \E i \in 1..Len(Get(exp, "interactions", <<>>)) :
          /\ exp.interactions[i].type = "form_submit"
          /\ Get(exp.interactions[i], "expect_http_2xx", FALSE)

\* C26: when the expectations request a capability minimum above 0 or a
\* form_submit interaction with expect_http_2xx, and the payload of a vision
\* step reports the requested element counts, the interaction as attempted
\* with a 2xx status, a success banner and no error banner, and scores at or
\* above the thresholds, the gate evaluation of that vision step passes (so
\* the run ends with status 'success').
C26_SatisfyingPayloadPasses ==
    /\ last_vision.id > 0
    /\ RequestsSomething(expectations)
    /\ ReportsCapabilities(last_vision.payload, expectations)
    /\ ReportsInteractions(last_vision.payload, expectations)
    /\ ReportsScores(last_vision.payload, expectations)
    => /\ last_vision.reasons = <<>>
       /\ summary.status = "success"

\* C27: whenever the status is 'stalled', at least two passes are recorded,
\* the last two carry identical non-empty failing_reasons, and final_message
\* lists those reasons; hence a run with max_passes = 1 is never stalled, and
\* no run is stalled after a pass whose reasons differ from the pass before.
C27_StalledMeansRepeatedFailures ==
    /\ (summary.status = "stalled" =>
          /\ Len(Passes) >= 2
          /\ LastPass.failing_reasons # <<>>
          /\ LastPass.failing_reasons = Passes[Len(Passes) - 1].failing_reasons
          /\ summary.final_message =
                [kind |-> "stalled", reasons |-> LastPass.failing_reasons])
    /\ (config.max_passes = 1 => summary.status # "stalled")

\* A run stalled in its third pass, after the reasons of the second pass
\* differed from those of the first.
C27_Witness ==
    /\ pc = "returned"
    /\ summary.status = "stalled"
    /\ Len(Passes) = 3
    /\ Passes[1].failing_reasons # Passes[2].failing_reasons

\* The last line of what the process wrote (stderr, else stdout).
LastLine(proc) == Detail(proc)[Len(Detail(proc))]

\* C28: a wait ends in one of three ways.  It returns normally only when the
\* port accepts connections.  When the owning process has exited, a
\* RuntimeError is raised whose message carries the last line of the
\* process's captured stderr/stdout.  When the timeout has elapsed, the
\* process is terminated and a TimeoutError that names the service
\* description is raised.
C28_WaitOutcomes ==
    /\ (wait_result.outcome = "returned" => wait_port_open)
    /\ (wait_result.outcome = "RuntimeError" =>
          /\ ~wait_proc.alive
          /\ wait_proc.signals = <<>>
          /\ wait_result.message[1] = WaitSubject(wait_args)
          /\ (Detail(wait_proc) # <<>> =>
                wait_result.message[Len(wait_result.message)]
                    = LastLine(wait_proc)))
    /\ (wait_result.outcome = "TimeoutError" =>
          /\ wait_elapsed >= wait_args.timeout
          /\ wait_result.message[1] = WaitSubject(wait_args)
          /\ (wait_proc.given =>
                /\ ~wait_proc.alive
                /\ wait_proc.signals # <<>>))

\* ------------------------------------------------ claims on texts as payload
\* The index of the brace that closes the object opened at or after i.
RECURSIVE MatchingBrace(_, _, _)
MatchingBrace(text, i, depth) ==
    IF i > Len(text) THEN 0
    ELSE IF text[i] = "{" THEN MatchingBrace(text, i + 1, depth + 1)
    ELSE IF text[i] = "}"
    THEN (IF depth = 1 THEN i ELSE MatchingBrace(text, i + 1, depth - 1))
    ELSE MatchingBrace(text, i + 1, depth)

\* The first balanced {...} part of a text; empty when there is none.
FirstBalanced(text) ==
    LET start == find(text, "{")
        end == IF start = 0 THEN 0 ELSE MatchingBrace(text, start, 0)
    IN  IF end = 0 THEN <<>> ELSE SubSeq(text, start, end)

\* What parse_vision_payload returns for a payload that is this dict.
BuiltFrom(value, mode) ==
    ParseVisionPayload(Payload("dict", value, "None", TRUE, "None"), mode)

IsText(payload) == "text" \in DOMAIN payload

\* C29: for a text, parse_vision_payload returns the result of the strict
\* parse when that succeeds; otherwise the result built from the first
\* balanced {...} part, with at least one warning, also when more text or
\* further objects follow that part; and when that fails too the default
\* result: all scores null, exactly one issue, the caller's mode.
C29_FirstBalancedObject ==
    parse_outcome.called /\ IsText(raw_payload) =>
        LET text == raw_payload.text
            strict == json_loads(text)
            first == json_loads(FirstBalanced(text))
        IN  /\ parse_outcome.raised = "None"
            /\ IF strict.ok
               THEN parse_outcome.result
                        = BuiltFrom(strict.value, parse_mode).result
               ELSE IF first.ok
               THEN /\ parse_outcome.result
                          = BuiltFrom(first.value, parse_mode).result
                    /\ Len(parse_outcome.warnings) >= 1
               ELSE /\ parse_outcome.result =
                          _default_result("Empty response from Vision agent")
                    /\ Len(parse_outcome.result.issues) = 1
                    /\ parse_outcome.mode = parse_mode

\* ------------------------------------------------------ claims on the passes
\* C30: a recorded PassOutcome has vision_passed = true only if a vision step
\* ran in that pass and its gate evaluation returned no failing reasons, which
\* makes it the last pass of a run that ends with status 'success'; a summary
\* whose status is not 'success' holds no PassOutcome with vision_passed.
C30_VisionPassedMeansVisionRan ==
    \A i \in 1..Len(Passes) :
        Passes[i].vision_passed =>
            /\ last_vision.pass = Passes[i].index
            /\ last_vision.reasons = <<>>
            /\ summary.status = "success"

====
